---- MODULE Spec2Model ----
(***************************************************************************)
(* Model of the resource cache and aggregation engine of k8s-viewer        *)
(* (src/k8s_resource_viewer/main.py, class K8sViewer).                     *)
(*                                                                         *)
(* Python values are modelled as follows:                                  *)
(*   dict            function whose DOMAIN is the set of keys              *)
(*   list            sequence                                              *)
(*   None / value    record [none |-> BOOLEAN, data |-> value]             *)
(*   time.time()     the integer clock `now`                               *)
(*   the cache file  record [st |-> "absent" | "corrupt" | "ok", data]     *)
(***************************************************************************)
EXTENDS Integers, Sequences, FiniteSets, TLC

VARIABLES
    cache_enabled,    \* self.cache_enabled
    cache_ttl,        \* self.cache_ttl
    current_context,  \* self.current_context
    cache,            \* self.cache : context -> kind -> key -> entry
    disk,             \* the durable file cluster_cache.json
    dirExists,        \* whether the cache directory exists
    io,               \* durable-storage operations done by this instance
    kubeContext,      \* kubectl's current-context (external state)
    active_context,   \* the context the operator's reads are aimed at
    now,              \* the wall clock, in seconds
    lastPut,          \* (kind, key) -> payload and time of the last put of this instance
    ret,              \* the last call and what it returned
    puts,             \* number of cache writes so far
    restarts,         \* number of constructions after the first
    cluster,          \* the inventory the control plane holds
    peer,             \* a second K8sViewer process on the same cache file
    results,          \* the result holder of a running get_node_groups
    threads,          \* the position of each sub-fetch thread
    pc                \* the position of the get_node_groups orchestrator

vars == <<cache_enabled, cache_ttl, current_context, cache, disk, dirExists,
          io, kubeContext, active_context, now, lastPut, ret, puts, restarts,
          cluster, peer, results, threads, pc>>

----------------------------------------------------------------------------
(* Bounds *)

MaxTime == 2
MaxPuts == 2
MaxRestarts == 1
MaxNodes == 2

(* Program constants *)

DefaultTTL == 30
DefaultContext == "default"

(* Input domains *)

Contexts == {"ctxA", "ctxB"}
Kinds == {"nodes", "pods"}

\* caller-supplied cache_ttl: None, 0 or a positive number
NoTtlArg == [given |-> FALSE, val |-> 0]
TtlArgs == {NoTtlArg, [given |-> TRUE, val |-> 0], [given |-> TRUE, val |-> 2]}
\* K8S_VIEWER_CACHE_TTL: unset or set
NoTtlEnv == [given |-> FALSE, val |-> 0]
EnvTtls == {NoTtlEnv, [given |-> TRUE, val |-> 1]}

----------------------------------------------------------------------------
(* Python dict helpers *)

EmptyDict == <<>>

DictSet(d, k, v) ==
    IF k \in DOMAIN d THEN [d EXCEPT ![k] = v] ELSE d @@ (k :> v)

None == [none |-> TRUE, data |-> <<>>]
Some(x) == [none |-> FALSE, data |-> x]

\* truthiness of an optional list: None and [] are both falsy
Truthy(r) == ~r.none /\ r.data # <<>>

----------------------------------------------------------------------------
(* Strings that the code parses are sequences of one-character strings *)

\* the characters of the model's strings, by ASCII code point
DigitRun == <<"0", "1", "2", "3", "4", "5", "6", "7", "8", "9">>
UpperRun == <<
    "A", "B", "C", "D", "E", "F", "G", "H", "I", "J", "K", "L", "M", "N",
    "O", "P", "Q", "R", "S", "T", "U", "V", "W", "X", "Y", "Z" >>
LowerRun == <<
    "a", "b", "c", "d", "e", "f", "g", "h", "i", "j", "k", "l", "m", "n",
    "o", "p", "q", "r", "s", "t", "u", "v", "w", "x", "y", "z" >>

IndexIn(run, c) == CHOOSE i \in 1..Len(run) : run[i] = c
InRun(run, c) == \E i \in 1..Len(run) : run[i] = c

CodePoint(c) ==
    IF InRun(DigitRun, c) THEN 47 + IndexIn(DigitRun, c)
    ELSE IF InRun(UpperRun, c) THEN 64 + IndexIn(UpperRun, c)
    ELSE IF InRun(LowerRun, c) THEN 96 + IndexIn(LowerRun, c)
    ELSE CASE c = "-" -> 45 [] c = "." -> 46 [] c = ":" -> 58
           [] c = "<" -> 60 [] c = ">" -> 62

DigitChars == {"0", "1", "2", "3", "4", "5", "6", "7", "8", "9"}

DigitVal(c) ==
    CASE c = "0" -> 0 [] c = "1" -> 1 [] c = "2" -> 2 [] c = "3" -> 3
      [] c = "4" -> 4 [] c = "5" -> 5 [] c = "6" -> 6 [] c = "7" -> 7
      [] c = "8" -> 8 [] c = "9" -> 9

IsDigits(s) == Len(s) > 0 /\ \A i \in 1..Len(s) : s[i] \in DigitChars

RECURSIVE DigitsToInt(_)
DigitsToInt(s) ==
    IF Len(s) = 0 THEN 0
    ELSE DigitsToInt(SubSeq(s, 1, Len(s) - 1)) * 10 + DigitVal(s[Len(s)])

\* str.rstrip(chars): drop every trailing character that is in chars
RECURSIVE rstrip(_, _)
rstrip(s, chars) ==
    IF Len(s) > 0 /\ s[Len(s)] \in chars
    THEN rstrip(SubSeq(s, 1, Len(s) - 1), chars)
    ELSE s

endswith(s, suffix) ==
    /\ Len(s) >= Len(suffix)
    /\ SubSeq(s, Len(s) - Len(suffix) + 1, Len(s)) = suffix

startswith(s, prefix) ==
    /\ Len(s) >= Len(prefix)
    /\ SubSeq(s, 1, Len(prefix)) = prefix

\* s[n:]
DropFirst(s, n) == SubSeq(s, n + 1, Len(s))
\* s[:-n]
DropLast(s, n) == SubSeq(s, 1, Len(s) - n)

Unknown == <<"<", "u", "n", "k", "n", "o", "w", "n", ">">>

\* str.lower()
lower(s) ==
    [i \in 1..Len(s) |->
        IF InRun(UpperRun, s[i]) THEN LowerRun[IndexIn(UpperRun, s[i])] ELSE s[i]]

\* pattern in s
contains(pattern, s) ==
    \E i \in 0..(Len(s) - Len(pattern)) : SubSeq(s, i + 1, i + Len(pattern)) = pattern

\* the result of a conversion that may raise ValueError
Parsed(v) == [ok |-> TRUE, val |-> v]
ValueError == [ok |-> FALSE, val |-> 0]

\* int(s) for the strings of the model (digits, or anything else)
PyInt(s) == IF IsDigits(s) THEN Parsed(DigitsToInt(s)) ELSE ValueError

\* the node memory conversion of get_node_groups and get_nodes:
\*   int(memory.rstrip('Ki')) * 1024
NodeMemoryBytes(s) ==
    LET r == PyInt(rstrip(s, {"K", "i"}))
    IN IF r.ok THEN Parsed(r.val * 1024) ELSE ValueError

\* parse_cpu_value, with CPU in millicores.  float() is modelled on digit
\* strings (whole cores, or whole millicores before a trailing 'm').
parse_cpu_value(s) ==
    IF s = Unknown THEN 0
    ELSE IF endswith(s, <<"m">>)
         THEN (IF IsDigits(DropLast(s, 1)) THEN DigitsToInt(DropLast(s, 1)) ELSE 0)
         ELSE (IF IsDigits(s) THEN DigitsToInt(s) * 1000 ELSE 0)

\* round num/den to the nearest integer, ties to even (Python's '.1f' on a
\* value that is exact in binary)
RoundHalfEven(num, den) ==
    LET q == num \div den
        r == num % den
    IN IF 2 * r > den THEN q + 1
       ELSE IF 2 * r = den THEN q + (q % 2)
       ELSE q

\* str(n) for an integer n
RECURSIVE NatStr(_)
NatStr(n) ==
    IF n < 10 THEN <<DigitRun[n + 1]>>
    ELSE NatStr(n \div 10) \o <<DigitRun[(n % 10) + 1]>>

IntStr(n) == IF n < 0 THEN <<"-">> \o NatStr(-n) ELSE NatStr(n)

\* f"{value:.1f}{unit}" for value = tenths/10 >= 0
OneDecimal(tenths, unit) ==
    NatStr(tenths \div 10) \o <<".">> \o NatStr(tenths % 10) \o unit

MemUnits == << <<"B">>, <<"K", "i">>, <<"M", "i">>, <<"G", "i">>, <<"T", "i">> >>

RECURSIVE Pow1024(_)
Pow1024(k) == IF k = 0 THEN 1 ELSE 1024 * Pow1024(k - 1)

\* the loop of format_resource: while value >= 1024 and unit_index < 4
RECURSIVE MemUnitIndex(_, _)
MemUnitIndex(bytes, k) ==
    IF (bytes \div Pow1024(k)) >= 1024 /\ k < Len(MemUnits) - 1
    THEN MemUnitIndex(bytes, k + 1)
    ELSE k

\* format_resource(value, True): value in bytes, f"{value:.1f}{unit}"
format_memory(bytes) ==
    LET k == MemUnitIndex(bytes, 0)
        den == Pow1024(k)
        tenths == (bytes \div den) * 10 + RoundHalfEven((bytes % den) * 10, den)
    IN OneDecimal(tenths, MemUnits[k + 1])

\* format_resource(value): value in millicores
format_cpu(mc) ==
    IF mc < 1000 THEN NatStr(mc) \o <<"m">>
    ELSE OneDecimal(RoundHalfEven(mc, 100), <<>>)

format_resource(value, is_memory) ==
    IF is_memory THEN format_memory(value) ELSE format_cpu(value)

----------------------------------------------------------------------------
(* String order: sorted() compares str by code point *)

RECURSIVE StrLess(_, _)
StrLess(a, b) ==
    IF Len(b) = 0 THEN FALSE
    ELSE IF Len(a) = 0 THEN TRUE
    ELSE IF a[1] = b[1] THEN StrLess(Tail(a), Tail(b))
    ELSE CodePoint(a[1]) < CodePoint(b[1])

----------------------------------------------------------------------------
(* Names *)

Worker == <<"w", "o", "r", "k", "e", "r">>
CoreServices == <<"c", "o", "r", "e", "-", "s", "e", "r", "v", "i", "c", "e", "s">>
EksPrefix == <<"e", "k", "s", ":">>
KarpenterPrefix == <<"k", "a", "r", "p", "e", "n", "t", "e", "r", ":">>

EksLabel == "eks.amazonaws.com/nodegroup"
KarpenterLabel == "karpenter.sh/nodepool"
ReservedLabel == "reserved"
InstanceTypeLabel == "node.kubernetes.io/instance-type"

\* dict.get(k): None when the key is missing
Get(d, k) == IF k \in DOMAIN d THEN Some(d[k]) ELSE None

\* dict.get(k, default)
GetOr(d, k, default) == IF k \in DOMAIN d THEN d[k] ELSE default

----------------------------------------------------------------------------
(* Node classification *)

\* variant: the autoscaler label is looked at before the managed-pool label
GroupNameOf_karpenter_first(labels) ==
    LET eks_group == Get(labels, EksLabel)
        karpenter_pool == Get(labels, KarpenterLabel)
    IN IF Truthy(karpenter_pool) THEN KarpenterPrefix \o karpenter_pool.data
       ELSE IF Truthy(eks_group) THEN EksPrefix \o eks_group.data
       ELSE IF Get(labels, ReservedLabel) = Some(CoreServices) THEN CoreServices
       ELSE Worker

\* get_node_groups, the group of a node from its labels
GroupNameOf(labels) ==
    LET eks_group == Get(labels, EksLabel)
        karpenter_pool == Get(labels, KarpenterLabel)
    IN IF Truthy(eks_group) THEN EksPrefix \o eks_group.data
       ELSE IF Truthy(karpenter_pool) THEN KarpenterPrefix \o karpenter_pool.data
       ELSE IF Get(labels, ReservedLabel) = Some(CoreServices) THEN CoreServices
       ELSE Worker

\* get_nodes, whether a node belongs to the requested group
InGroup(group_name, labels) ==
    \/ /\ startswith(group_name, EksPrefix)
       /\ Get(labels, EksLabel) = Some(DropFirst(group_name, 4))
    \/ /\ startswith(group_name, KarpenterPrefix)
       /\ Get(labels, KarpenterLabel) = Some(DropFirst(group_name, 10))
    \/ /\ group_name = CoreServices
       /\ Get(labels, ReservedLabel) = Some(CoreServices)
    \/ /\ group_name = Worker
       /\ ~Truthy(Get(labels, EksLabel))
       /\ ~Truthy(Get(labels, KarpenterLabel))
       /\ Get(labels, ReservedLabel) # Some(CoreServices)

----------------------------------------------------------------------------
(* Raw inventory records, as the control plane returns them *)

\* a creationTimestamp: "" (fmt "empty"), a string in the format
\* %Y-%m-%dT%H:%M:%SZ naming the second `secs` (fmt "iso"), or some other
\* text that begins with a letter (fmt "bad")
EmptyTs == [fmt |-> "empty", secs |-> 0]
BadTs == [fmt |-> "bad", secs |-> 0]
IsoTs(secs) == [fmt |-> "iso", secs |-> secs]

\* string order on timestamps: digits sort before letters
TsLess(a, b) ==
    IF a.fmt = "iso" /\ b.fmt = "iso" THEN a.secs < b.secs
    ELSE a.fmt = "iso" /\ b.fmt = "bad"

NA == <<"N", "/", "A">>

\* int(x / d): truncation toward zero
TruncDiv(x, d) == IF x >= 0 THEN x \div d ELSE -((-x) \div d)

\* calculate_age(timestamp) at clock t
calculate_age(ts, t) ==
    IF ts.fmt = "empty" THEN NA
    ELSE IF ts.fmt = "bad" THEN NA
    ELSE LET total_seconds == t - ts.secs
         IN IF total_seconds < 3600 THEN IntStr(TruncDiv(total_seconds, 60)) \o <<"m">>
            ELSE IF total_seconds < 86400 THEN IntStr(TruncDiv(total_seconds, 3600)) \o <<"h">>
            ELSE IntStr(TruncDiv(total_seconds, 86400)) \o <<"d">>

\* get_node_status: the first condition of type Ready decides
RECURSIVE get_node_status(_)
get_node_status(conditions) ==
    IF Len(conditions) = 0 THEN "Unknown"
    ELSE IF Head(conditions).type = "Ready"
         THEN (IF Head(conditions).status = "True" THEN "Ready" ELSE "NotReady")
         ELSE get_node_status(Tail(conditions))

Zero == <<"0">>

\* usage CPU of get_node_metrics, in millicores (the model's quantities are
\* whole millicores)
UsageCpu(s) ==
    IF endswith(s, <<"n">>)
    THEN (IF IsDigits(DropLast(s, 1)) THEN DigitsToInt(DropLast(s, 1)) \div 1000000 ELSE 0)
    ELSE IF endswith(s, <<"u">>)
    THEN (IF IsDigits(DropLast(s, 1)) THEN DigitsToInt(DropLast(s, 1)) \div 1000 ELSE 0)
    ELSE IF endswith(s, <<"m">>)
    THEN (IF IsDigits(DropLast(s, 1)) THEN DigitsToInt(DropLast(s, 1)) ELSE 0)
    ELSE IF s = Unknown THEN 0
    ELSE (IF IsDigits(s) THEN DigitsToInt(s) * 1000 ELSE 0)

\* usage memory of get_node_metrics, in bytes
UsageMemory(s) ==
    LET body == PyInt(DropLast(s, 2))
    IN IF endswith(s, <<"K", "i">>) THEN (IF body.ok THEN body.val * 1024 ELSE 0)
       ELSE IF endswith(s, <<"M", "i">>) THEN (IF body.ok THEN body.val * 1024 * 1024 ELSE 0)
       ELSE IF endswith(s, <<"G", "i">>) THEN (IF body.ok THEN body.val * 1024 * 1024 * 1024 ELSE 0)
       ELSE IF s = Unknown THEN 0
       ELSE (IF PyInt(s).ok THEN PyInt(s).val ELSE 0)

\* the result of a control-plane query: it fails, or returns items
Failed == [ok |-> FALSE, items |-> <<>>]
Returned(items) == [ok |-> TRUE, items |-> items]

\* get_node_metrics: node name -> usage; {} when the query fails
RECURSIVE MetricsMap(_)
MetricsMap(items) ==
    IF Len(items) = 0 THEN EmptyDict
    ELSE LET item == items[Len(items)]
             rest == MetricsMap(SubSeq(items, 1, Len(items) - 1))
         IN DictSet(rest, item.name,
                    [cpu_used |-> UsageCpu(GetOr(item.usage, "cpu", Zero)),
                     memory_used |-> UsageMemory(GetOr(item.usage, "memory", Zero))])

get_node_metrics(q) == IF q.ok THEN MetricsMap(q.items) ELSE EmptyDict

NoUsage == [cpu_used |-> 0, memory_used |-> 0]

----------------------------------------------------------------------------
(* Aggregation *)

\* what a call gives back: a list, or an exception reaching the caller
Returns(list) == [raised |-> FALSE, data |-> list]
Raises == [raised |-> TRUE, data |-> <<>>]

NodeCapacityMemory(node) == NodeMemoryBytes(GetOr(node.capacity, "memory", Zero))
NodeAllocatableMemory(node) == NodeMemoryBytes(GetOr(node.allocatable, "memory", Zero))

RECURSIVE SumSeq(_)
SumSeq(seq) == IF Len(seq) = 0 THEN 0 ELSE Head(seq) + SumSeq(Tail(seq))

SumOver(seq, F(_)) == SumSeq([i \in 1..Len(seq) |-> F(seq[i])])

RECURSIVE MinTs(_)
MinTs(seq) ==
    IF Len(seq) = 1 THEN seq[1]
    ELSE LET m == MinTs(Tail(seq))
         IN IF TsLess(m, seq[1]) THEN m ELSE seq[1]

\* sorted(names): ascending by code point
RECURSIVE SortNames(_)
SortNames(names) ==
    IF names = {} THEN <<>>
    ELSE LET least == CHOOSE n \in names : \A m \in names \ {n} : StrLess(n, m)
         IN <<least>> \o SortNames(names \ {least})

\* variant: a group counts the nodes that pass the filter of get_nodes
GroupSummary_count_by_filter(name, all_nodes, node_metrics, t) ==
    LET IsMember(node) == GroupNameOf(node.labels) = name
        members == SelectSeq(all_nodes, IsMember)
        Passes(node) == InGroup(name, node.labels)
        HasTs(node) == node.created.fmt # "empty"
        stamped == SelectSeq(members, HasTs)
        timestamps == [i \in 1..Len(stamped) |-> stamped[i].created]
        CpuCapacity(node) == parse_cpu_value(GetOr(node.capacity, "cpu", Zero))
        MemCapacity(node) == NodeCapacityMemory(node).val
        CpuUsed(node) == GetOr(node_metrics, node.name, NoUsage).cpu_used
        MemUsed(node) == GetOr(node_metrics, node.name, NoUsage).memory_used
    IN [name |-> name,
        count |-> Len(SelectSeq(all_nodes, Passes)),
        age |-> IF Len(timestamps) > 0 THEN calculate_age(MinTs(timestamps), t) ELSE NA,
        total_cpu |-> format_resource(SumOver(members, CpuCapacity), FALSE),
        used_cpu |-> format_resource(SumOver(members, CpuUsed), FALSE),
        total_memory |-> format_resource(SumOver(members, MemCapacity), TRUE),
        used_memory |-> format_resource(SumOver(members, MemUsed), TRUE)]

\* variant: the accumulators of group_map are assigned, not added to
GroupSummary_last_member_only(name, all_nodes, node_metrics, t) ==
    LET IsMember(node) == GroupNameOf(node.labels) = name
        members == SelectSeq(all_nodes, IsMember)
        last == <<members[Len(members)]>>
        HasTs(node) == node.created.fmt # "empty"
        stamped == SelectSeq(members, HasTs)
        timestamps == [i \in 1..Len(stamped) |-> stamped[i].created]
        CpuCapacity(node) == parse_cpu_value(GetOr(node.capacity, "cpu", Zero))
        MemCapacity(node) == NodeCapacityMemory(node).val
        CpuUsed(node) == GetOr(node_metrics, node.name, NoUsage).cpu_used
        MemUsed(node) == GetOr(node_metrics, node.name, NoUsage).memory_used
    IN [name |-> name,
        count |-> Len(members),
        age |-> IF Len(timestamps) > 0 THEN calculate_age(MinTs(timestamps), t) ELSE NA,
        total_cpu |-> format_resource(SumOver(last, CpuCapacity), FALSE),
        used_cpu |-> format_resource(SumOver(last, CpuUsed), FALSE),
        total_memory |-> format_resource(SumOver(last, MemCapacity), TRUE),
        used_memory |-> format_resource(SumOver(last, MemUsed), TRUE)]

\* one entry of the list get_node_groups returns
GroupSummary(name, all_nodes, node_metrics, t) ==
    LET IsMember(node) == GroupNameOf(node.labels) = name
        members == SelectSeq(all_nodes, IsMember)
        HasTs(node) == node.created.fmt # "empty"
        stamped == SelectSeq(members, HasTs)
        timestamps == [i \in 1..Len(stamped) |-> stamped[i].created]
        CpuCapacity(node) == parse_cpu_value(GetOr(node.capacity, "cpu", Zero))
        MemCapacity(node) == NodeCapacityMemory(node).val
        CpuUsed(node) == GetOr(node_metrics, node.name, NoUsage).cpu_used
        MemUsed(node) == GetOr(node_metrics, node.name, NoUsage).memory_used
    IN [name |-> name,
        count |-> Len(members),
        age |-> IF Len(timestamps) > 0 THEN calculate_age(MinTs(timestamps), t) ELSE NA,
        total_cpu |-> format_resource(SumOver(members, CpuCapacity), FALSE),
        used_cpu |-> format_resource(SumOver(members, CpuUsed), FALSE),
        total_memory |-> format_resource(SumOver(members, MemCapacity), TRUE),
        used_memory |-> format_resource(SumOver(members, MemUsed), TRUE)]

\* the keys of group_map in insertion order: the group of each node, at the
\* place of the first node that falls in it
RECURSIVE GroupOrder(_)
GroupOrder(all_nodes) ==
    IF Len(all_nodes) = 0 THEN <<>>
    ELSE LET before == GroupOrder(SubSeq(all_nodes, 1, Len(all_nodes) - 1))
             name == GroupNameOf(all_nodes[Len(all_nodes)].labels)
         IN IF \E i \in 1..Len(before) : before[i] = name THEN before
            ELSE Append(before, name)

\* variant: the list is returned in the order of group_map, not sorted
aggregate_unsorted(all_nodes, node_metrics, t) ==
    LET order == GroupOrder(all_nodes)
    IN IF \E i \in 1..Len(all_nodes) :
              \/ ~NodeCapacityMemory(all_nodes[i]).ok
              \/ ~NodeAllocatableMemory(all_nodes[i]).ok
       THEN Raises
       ELSE Returns([i \in 1..Len(order) |->
                        GroupSummary(order[i], all_nodes, node_metrics, t)])

\* get_node_groups after the join: classification and aggregation of the
\* node list all_nodes with the usage map node_metrics
aggregate(all_nodes, node_metrics, t) ==
    LET names == {GroupNameOf(all_nodes[i].labels) : i \in 1..Len(all_nodes)}
        sorted == SortNames(names)
    IN IF \E i \in 1..Len(all_nodes) :
              \/ ~NodeCapacityMemory(all_nodes[i]).ok
              \/ ~NodeAllocatableMemory(all_nodes[i]).ok
       THEN Raises
       ELSE Returns([i \in 1..Len(sorted) |->
                        GroupSummary(sorted[i], all_nodes, node_metrics, t)])

\* variant: a failed metrics query empties the whole result
get_node_groups_abort_on_metrics(nodesQ, metricsQ, t) ==
    IF ~metricsQ.ok THEN Returns(<<>>)
    ELSE aggregate(IF nodesQ.ok THEN nodesQ.items ELSE <<>>, get_node_metrics(metricsQ), t)

\* variant: a failed node-list query reaches the caller as an exception
get_node_groups_raise_on_nodes(nodesQ, metricsQ, t) ==
    IF ~nodesQ.ok THEN Raises
    ELSE aggregate(nodesQ.items, get_node_metrics(metricsQ), t)

\* get_node_groups as one step: nodesQ and metricsQ are the outcomes of the
\* node-list and the node-metrics query
get_node_groups(nodesQ, metricsQ, t) ==
    aggregate(IF nodesQ.ok THEN nodesQ.items ELSE <<>>, get_node_metrics(metricsQ), t)

\* the record get_nodes builds for one node of the group
NodeData(node, group_name, metrics, t) ==
    LET node_metrics == GetOr(metrics, node.name, NoUsage)
    IN [name |-> node.name,
        status |-> get_node_status(node.conditions),
        age |-> calculate_age(node.created, t),
        instance_type |-> GetOr(node.labels, InstanceTypeLabel,
                                <<"U", "n", "k", "n", "o", "w", "n">>),
        cpu_alloc |-> format_resource(parse_cpu_value(GetOr(node.allocatable, "cpu", Zero)), FALSE),
        cpu_total |-> format_resource(parse_cpu_value(GetOr(node.capacity, "cpu", Zero)), FALSE),
        cpu_used |-> format_resource(node_metrics.cpu_used, FALSE),
        memory_alloc |-> format_resource(NodeAllocatableMemory(node).val, TRUE),
        memory_total |-> format_resource(NodeCapacityMemory(node).val, TRUE),
        memory_used |-> format_resource(node_metrics.memory_used, TRUE),
        group_name |-> group_name]

\* the loop of get_nodes: nodes of the group, in list order; a node whose
\* processing raises is skipped
NodesRoster(group_name, items, metrics, t) ==
    LET Kept(node) == /\ InGroup(group_name, node.labels)
                      /\ NodeAllocatableMemory(node).ok
                      /\ NodeCapacityMemory(node).ok
        kept == SelectSeq(items, Kept)
    IN [i \in 1..Len(kept) |-> NodeData(kept[i], group_name, metrics, t)]

\* kubectl top pods, parsed by get_pod_metrics: {} when the command fails
\* or a row does not parse
PodCpuOk(s) ==
    IF endswith(s, <<"m">>) THEN IsDigits(DropLast(s, 1)) ELSE IsDigits(s)
PodCpu(s) ==
    IF endswith(s, <<"m">>) THEN DigitsToInt(DropLast(s, 1)) ELSE DigitsToInt(s) * 1000
PodMemOk(s) == Len(s) >= 2 /\ IsDigits(DropLast(s, 2))
PodMem(s) ==
    LET value == DigitsToInt(DropLast(s, 2))
        unit == SubSeq(s, Len(s) - 1, Len(s))
    IN IF unit \in {<<"k", "i">>, <<"K", "i">>, <<"K", "I">>, <<"k", "I">>} THEN value * 1024
       ELSE IF unit \in {<<"m", "i">>, <<"M", "i">>, <<"M", "I">>, <<"m", "I">>} THEN value * 1024 * 1024
       ELSE IF unit \in {<<"g", "i">>, <<"G", "i">>, <<"G", "I">>, <<"g", "I">>} THEN value * 1024 * 1024 * 1024
       ELSE value

PodKey(namespace, name) == <<namespace, name>>

RECURSIVE PodMetricsMap(_)
PodMetricsMap(rows) ==
    IF Len(rows) = 0 THEN EmptyDict
    ELSE LET row == rows[Len(rows)]
         IN DictSet(PodMetricsMap(SubSeq(rows, 1, Len(rows) - 1)),
                    PodKey(row.namespace, row.name),
                    [cpu |-> format_resource(PodCpu(row.cpu), FALSE),
                     memory |-> format_resource(PodMem(row.memory), TRUE)])

pod_metrics_map(q) ==
    IF q.ok /\ \A i \in 1..Len(q.items) :
                  PodCpuOk(q.items[i].cpu) /\ PodMemOk(q.items[i].memory)
    THEN PodMetricsMap(q.items)
    ELSE EmptyDict

\* the list get_pod_metrics builds from the pod list and the metrics map
PodList(items, metrics_map, t) ==
    [i \in 1..Len(items) |->
        LET metrics == GetOr(metrics_map, PodKey(items[i].namespace, items[i].name),
                             [cpu |-> Zero, memory |-> Zero])
        IN [namespace |-> items[i].namespace,
            name |-> items[i].name,
            status |-> items[i].phase,
            age |-> calculate_age(items[i].created, t),
            cpu |-> metrics.cpu,
            memory |-> metrics.memory]]

\* pod_metrics of search_pods: namespace/name -> raw usage strings; {} when
\* the metrics query fails
RECURSIVE RawPodMetrics(_)
RawPodMetrics(items) ==
    IF Len(items) = 0 THEN EmptyDict
    ELSE LET item == items[Len(items)]
         IN DictSet(RawPodMetrics(SubSeq(items, 1, Len(items) - 1)),
                    PodKey(item.namespace, item.name),
                    [cpu |-> item.cpu, memory |-> item.memory])

\* the list search_pods builds: the pods whose name or namespace contains
\* the pattern, case ignored
MatchingPods(pattern, items, pod_metrics, t) ==
    LET Matches(pod) == \/ contains(lower(pattern), lower(pod.name))
                        \/ contains(lower(pattern), lower(pod.namespace))
        matching == SelectSeq(items, Matches)
    IN [i \in 1..Len(matching) |->
          LET metrics == GetOr(pod_metrics,
                               PodKey(matching[i].namespace, matching[i].name),
                               [cpu |-> Zero, memory |-> Zero])
          IN [name |-> matching[i].name,
              namespace |-> matching[i].namespace,
              node |-> matching[i].nodeName,
              status |-> matching[i].phase,
              age |-> calculate_age(matching[i].created, t),
              cpu |-> metrics.cpu,
              memory |-> metrics.memory]]

----------------------------------------------------------------------------
(* Inventories and requests *)

N1 == <<"n", "1">>
N2 == <<"n", "2">>
N3 == <<"n", "3">>
NodeNames == <<N1, N2, N3>>

PoolA == <<"p", "a">>
PoolK == <<"p", "k">>
PoolUpper == <<"P", "Z">>
Other == <<"x">>
EksPoolA == EksPrefix \o PoolA

Quantity2048Ki == <<"2", "0", "4", "8", "K", "i">>
Quantity1536Ki == <<"1", "5", "3", "6", "K", "i">>
Quantity1024Ki == <<"1", "0", "2", "4", "K", "i">>
Quantity512Ki == <<"5", "1", "2", "K", "i">>
Quantity4Gi == <<"4", "G", "i">>
Quantity64Mi == <<"6", "4", "M", "i">>
Quantity3500m == <<"3", "5", "0", "0", "m">>
Quantity250m == <<"2", "5", "0", "m">>
Quantity250000000n == <<"2", "5", "0", "0", "0", "0", "0", "0", "0", "n">>

Resources(cpu, memory) == ("cpu" :> cpu @@ "memory" :> memory)

RawNode(name, labels, created, conditions, capacity, allocatable) ==
    [name |-> name, labels |-> labels, created |-> created,
     conditions |-> conditions, capacity |-> capacity, allocatable |-> allocatable]

ReadyTrue == <<[type |-> "MemoryPressure", status |-> "False"],
               [type |-> "Ready", status |-> "True"]>>

RawPod(namespace, name, nodeName, phase, created) ==
    [namespace |-> namespace, name |-> name, nodeName |-> nodeName,
     phase |-> phase, created |-> created]

Default == <<"d", "e", "f", "a", "u", "l", "t">>
KubeSystem == <<"k", "u", "b", "e", "-", "s", "y", "s", "t", "e", "m">>
P1 == <<"p", "1">>
P2 == <<"p", "2">>
Web == <<"W", "e", "b">>

EmptyCluster ==
    [nodes |-> <<>>, metrics |-> <<>>, pods |-> <<>>, top |-> <<>>, pools |-> <<>>]

\* the inventory behind get_nodes and get_pod_metrics: a managed-pool node
\* that also carries the reserved label, a plain worker, and a worker whose
\* memory is given in Gi
EngineCluster ==
    [nodes |-> <<
        RawNode(N1, (EksLabel :> PoolA @@ ReservedLabel :> CoreServices),
                IsoTs(0 - 90), ReadyTrue,
                Resources(<<"4">>, Quantity2048Ki), Resources(Quantity3500m, Quantity1536Ki)),
        RawNode(N2, EmptyDict, IsoTs(0 - 7200), <<>>,
                Resources(<<"2">>, Quantity1024Ki), Resources(<<"2">>, Quantity1024Ki)),
        RawNode(N3, EmptyDict, EmptyTs, ReadyTrue,
                Resources(<<"2">>, Quantity4Gi), Resources(<<"2">>, Quantity4Gi)) >>,
     metrics |-> << [name |-> N2,
                     usage |-> Resources(Quantity250000000n, Quantity512Ki)] >>,
     pods |-> << RawPod(Default, P1, N1, "Running", IsoTs(0 - 172800)),
                 RawPod(KubeSystem, P2, N1, "Pending", EmptyTs),
                 RawPod(Default, Web, N2, "Running", BadTs) >>,
     top |-> << [namespace |-> Default, name |-> P1,
                 cpu |-> Quantity250m, memory |-> Quantity64Mi] >>,
     pools |-> << PoolK >>]

\* label sets: each pool label absent, empty or set; the reserved label
\* absent, 'core-services' or something else
LabelChoices(label, values) == {EmptyDict} \cup {(label :> v) : v \in values}

LabelSets ==
    {e @@ k @@ r : e \in LabelChoices(EksLabel, {<<>>, PoolA}),
                   k \in LabelChoices(KarpenterLabel, {<<>>, PoolK}),
                   r \in LabelChoices(ReservedLabel, {CoreServices, Other})}

\* one label set for each group a node can fall in
CompanionLabelSets ==
    {(EksLabel :> PoolA), (EksLabel :> PoolUpper), (KarpenterLabel :> PoolK),
     (ReservedLabel :> CoreServices), EmptyDict}

\* capacity and allocatable of the i-th node of an inventory
NodeCapacities ==
    << Resources(<<"2">>, Quantity1024Ki),
       Resources(Quantity3500m, Quantity2048Ki),
       Resources(<<"4">>, Quantity1536Ki) >>
NodeAllocatables ==
    << Resources(<<"2">>, Quantity1024Ki),
       Resources(Quantity3500m, Quantity1536Ki),
       Resources(<<"4">>, Quantity1024Ki) >>

\* an inventory of n nodes with the given label sets; the metrics API knows
\* the first node only
GroupCluster(n, first, others) ==
    [EmptyCluster EXCEPT
        !.nodes = [i \in 1..n |->
                     RawNode(NodeNames[i], IF i = 1 THEN first ELSE others[i],
                             IsoTs(0 - 90 * i), ReadyTrue,
                             NodeCapacities[i], NodeAllocatables[i])],
        !.metrics = << [name |-> N1,
                        usage |-> Resources(Quantity250000000n, Quantity512Ki)] >>]

\* inventories of 1..MaxNodes nodes: the first node over every label set,
\* the others over one label set of each group
GroupClusters ==
    {GroupCluster(n, first, others)
     : n \in 1..MaxNodes, first \in LabelSets,
       others \in [2..MaxNodes -> CompanionLabelSets]}

\* a managed-pool node and plain workers, with an autoscaler pool declared
TwoGroupCluster ==
    [GroupCluster(2, (EksLabel :> PoolA), [i \in 2..MaxNodes |-> EmptyDict])
        EXCEPT !.pools = << PoolK >>]

\* arguments of calculate_age: '', an unparsable text, and creation times
\* around each unit boundary, before and after the clock
AgeBoundaries == {0 - 7200, 0 - 3600, 0 - 60, 0, 60, 3600, 86400, 172800}
AgeOffsets == {0 - 2, 0 - 1, 0, 1, 30}
Timestamps ==
    {EmptyTs, BadTs} \cup {IsoTs(0 - (b + d)) : b \in AgeBoundaries, d \in AgeOffsets}

\* keys and payloads of direct cache calls
FrameKeys == {Worker, EksPoolA}
GroupKeys == {Worker}
NodeKeys == {N1}
KeysOf(kind) == IF kind = "nodes" THEN GroupKeys ELSE NodeKeys
Payloads == {<<>>, <<[name |-> N1]>>}

\* arguments of get_nodes and get_pod_metrics
RequestedGroups == {Worker, KarpenterPrefix \o PoolK}
Patterns == {<<"P">>, <<"k", "u", "b", "e">>, <<"z">>}
GroupNames == {EksPoolA, EksPrefix, KarpenterPrefix \o PoolK, KarpenterPrefix,
               CoreServices, Worker}
RequestedNodes == {N1}

----------------------------------------------------------------------------
(* Cache store *)

EmptyContextCache == [k \in Kinds |-> EmptyDict]

FreshStore(ctx) == (ctx :> EmptyContextCache)

AbsentFile == [st |-> "absent", data |-> EmptyDict]
CorruptFile == [st |-> "corrupt", data |-> EmptyDict]
OkFile(store) == [st |-> "ok", data |-> store]

\* self.cache_ttl = cache_ttl or int(os.getenv('K8S_VIEWER_CACHE_TTL', '30'))
InitTtl(arg, env) ==
    IF arg.given /\ arg.val # 0 THEN arg.val
    ELSE IF env.given THEN env.val ELSE DefaultTTL

\* get_current_context: the stripped output, or 'default' on CalledProcessError
get_current_context(queryOk, kube) ==
    IF queryOk THEN kube ELSE DefaultContext

\* variant: a file without the active context is replaced by a fresh store
load_cache_discard(file, ctx, readOk) ==
    IF file.st = "ok" /\ readOk /\ ctx \in DOMAIN file.data
    THEN file.data
    ELSE (ctx :> [k \in Kinds |-> <<>>])

\* variant: a failed load leaves the store without the active context
load_cache_unseeded(file, ctx, readOk) ==
    IF file.st = "ok" /\ readOk
    THEN IF ctx \notin DOMAIN file.data
         THEN file.data @@ (ctx :> [k \in Kinds |-> <<>>])
         ELSE file.data
    ELSE <<>>

\* load_cache: readOk is whether open() and json.load() succeed.
load_cache(file, ctx, readOk) ==
    IF file.st = "ok" /\ readOk
    THEN IF ctx \notin DOMAIN file.data
         THEN file.data @@ (ctx :> EmptyContextCache)
         ELSE file.data
    ELSE FreshStore(ctx)

\* variant: an entry is still valid when its age equals the TTL
is_cache_valid_inclusive(enabled, entry, t, ttl) ==
    IF ~enabled THEN FALSE
    ELSE (t - entry.timestamp) <= ttl

\* is_cache_valid on an entry that exists
is_cache_valid(enabled, entry, t, ttl) ==
    IF ~enabled THEN FALSE
    ELSE (t - entry.timestamp) < ttl

HasEntry(store, ctx, kind, key) ==
    /\ ctx \in DOMAIN store
    /\ kind \in DOMAIN store[ctx]
    /\ key \in DOMAIN store[ctx][kind]

\* variant: the entry is returned without the validity test
get_cached_data_any_age(enabled, store, ctx, kind, key, t, ttl) ==
    IF ~enabled THEN None
    ELSE IF HasEntry(store, ctx, kind, key) THEN Some(store[ctx][kind][key].data)
    ELSE None

\* get_cached_data: the payload of a valid entry, or None
get_cached_data(enabled, store, ctx, kind, key, t, ttl) ==
    IF ~enabled THEN None
    ELSE IF ctx \notin DOMAIN store THEN None
    ELSE IF /\ HasEntry(store, ctx, kind, key)
            /\ is_cache_valid(enabled, store[ctx][kind][key], t, ttl)
         THEN Some(store[ctx][kind][key].data)
         ELSE None

\* variant: a put stamps every entry of its kind with the time of the put
StorePut_restamp_kind(store, ctx, kind, key, data, t) ==
    LET s1 == IF ctx \notin DOMAIN store THEN store @@ (ctx :> EmptyDict) ELSE store
        s2 == IF kind \notin DOMAIN s1[ctx]
              THEN [s1 EXCEPT ![ctx] = @ @@ (kind :> EmptyDict)]
              ELSE s1
        s3 == [s2 EXCEPT ![ctx][kind] =
                  DictSet(@, key, [data |-> data, timestamp |-> t])]
    IN [s3 EXCEPT ![ctx][kind] =
           [k \in DOMAIN @ |-> [@[k] EXCEPT !.timestamp = t]]]

\* variant: a put drops the entries of its context that are older than itself
StorePut_evict_older(store, ctx, kind, key, data, t) ==
    LET s1 == IF ctx \notin DOMAIN store THEN store @@ (ctx :> EmptyDict) ELSE store
        s2 == IF kind \notin DOMAIN s1[ctx]
              THEN [s1 EXCEPT ![ctx] = @ @@ (kind :> EmptyDict)]
              ELSE s1
        s3 == [s2 EXCEPT ![ctx][kind] =
                  DictSet(@, key, [data |-> data, timestamp |-> t])]
    IN [s3 EXCEPT ![ctx] =
           [kd \in DOMAIN @ |->
              [k \in {x \in DOMAIN @[kd] : @[kd][x].timestamp >= t} |-> @[kd][k]]]]

\* the in-memory effect of update_cache (caching enabled)
StorePut(store, ctx, kind, key, data, t) ==
    LET s1 == IF ctx \notin DOMAIN store THEN store @@ (ctx :> EmptyDict) ELSE store
        s2 == IF kind \notin DOMAIN s1[ctx]
              THEN [s1 EXCEPT ![ctx] = @ @@ (kind :> EmptyDict)]
              ELSE s1
    IN [s2 EXCEPT ![ctx][kind] =
            DictSet(@, key, [data |-> data, timestamp |-> t])]

\* save_cache: open(file, 'w') then json.dump.
\*   "ok"        the whole store is written
\*   "openfail"  open() raises, the file is untouched
\*   "dumpfail"  the file was truncated and the write did not complete
WriteOutcomes == {"ok", "openfail", "dumpfail"}

\* variant: an existing file keeps its contexts, new ones are added
save_cache_merge(file, store, outcome) ==
    IF outcome = "ok"
    THEN [st |-> "ok", data |-> IF file.st = "ok" THEN file.data @@ store ELSE store]
    ELSE IF outcome = "dumpfail" THEN [st |-> "corrupt", data |-> <<>>]
    ELSE file

\* variant: a failed dump leaves a readable file that holds the empty object
save_cache_empty_on_failure(file, store, outcome) ==
    IF outcome = "ok" THEN OkFile(store)
    ELSE IF outcome = "dumpfail" THEN OkFile(EmptyDict)
    ELSE file

save_cache(file, store, outcome) ==
    IF outcome = "ok" THEN OkFile(store)
    ELSE IF outcome = "dumpfail" THEN CorruptFile
    ELSE file

----------------------------------------------------------------------------
(* Return values *)

NoQueries == [nodes |-> "none", metrics |-> "none", pods |-> "none", top |-> "none"]

\* the record of a call: what was asked, under which context, what came back
NoRet ==
    [op |-> "init", kind |-> "", key |-> <<>>, target |-> "", ctx |-> "",
     none |-> TRUE, data |-> <<>>, fromCache |-> FALSE, age |-> 0,
     ok |-> TRUE, raised |-> FALSE, q |-> NoQueries, arg |-> NoTtlArg]

Called(op, kind, key) ==
    [NoRet EXCEPT !.op = op, !.kind = kind, !.key = key, !.ctx = current_context]

Gave(r, val) == [r EXCEPT !.none = val.none, !.data = val.data]

EntryAge(kind, key) ==
    IF HasEntry(cache, current_context, kind, key)
    THEN now - cache[current_context][kind][key].timestamp
    ELSE 0

FromCache(r, val) ==
    [Gave(r, val) EXCEPT !.fromCache = TRUE, !.age = EntryAge(r.kind, r.key)]

Outcome(ok) == IF ok THEN "ok" ELSE "fail"

\* the sub-fetch threads of get_node_groups, in the order they are started
\* and joined
Fetches == <<"nodes", "metrics", "karpenter">>

\* results = {'nodes': None, 'metrics': None, 'karpenter': None}
NoResults == [f \in {"nodes", "metrics", "karpenter"} |-> None]

\* a thread is "new", "ready" (started), "hung" (its query never returns),
\* "fetched" (its query is over, ok telling how it ended) or "done" (its slot
\* is written, the thread is over); n counts the queries it has issued
NotStarted ==
    [f \in {"nodes", "metrics", "karpenter"} |-> [at |-> "new", ok |-> TRUE, n |-> 0]]

Idle == [at |-> "idle", k |-> 1]

\* the second process: not running, or running with its own in-memory store
NoPeer == [up |-> FALSE, cache |-> EmptyDict]

----------------------------------------------------------------------------
(* Construction *)

\* K8sViewer.__init__(cache_ttl, cache_enabled) run against the file `file`:
\* the fields of the new instance
Constructed(arg, env, enabled, queryOk, readOk, file, dir, kube) ==
    LET ctx == get_current_context(queryOk, kube) IN
    [cache_enabled |-> enabled,
     cache_ttl |-> InitTtl(arg, env),
     current_context |-> ctx,
     cache |-> IF enabled THEN load_cache(file, ctx, readOk) ELSE EmptyDict,
     dirExists |-> (dir \/ enabled),
     io |-> IF enabled
            THEN {"mkdir", "exists"} \cup (IF file.st # "absent" THEN {"read"} ELSE {})
            ELSE {},
     ret |-> [NoRet EXCEPT !.op = "construct", !.ctx = ctx, !.ok = readOk,
                           !.arg = arg]]

\* the first process starts with no cache file and no cache directory
InitWith(clusters, args, envs, enableds) ==
    /\ \E arg \in args, env \in envs, enabled \in enableds :
          LET new == Constructed(arg, env, enabled, TRUE, TRUE, AbsentFile, FALSE, "ctxA")
          IN /\ cache_enabled = new.cache_enabled
             /\ cache_ttl = new.cache_ttl
             /\ current_context = new.current_context
             /\ active_context = new.current_context
             /\ cache = new.cache
             /\ dirExists = new.dirExists
             /\ io = new.io
             /\ ret = new.ret
    /\ disk = AbsentFile
    /\ kubeContext = "ctxA"
    /\ now = 0
    /\ lastPut = EmptyDict
    /\ cluster \in clusters
    /\ peer = NoPeer
    /\ puts = 0
    /\ restarts = 0
    /\ results = NoResults
    /\ threads = NotStarted
    /\ pc = Idle

\* variant: the loaded entries are stamped with the time of the load
Construct_restamp(args, envs) ==
    /\ restarts < MaxRestarts
    /\ \E arg \in args, env \in envs, enabled \in BOOLEAN,
          queryOk \in BOOLEAN, readOk \in BOOLEAN :
          LET new == Constructed(arg, env, enabled, queryOk, readOk, disk,
                                 dirExists, kubeContext)
          IN /\ cache_enabled' = new.cache_enabled
             /\ cache_ttl' = new.cache_ttl
             /\ current_context' = new.current_context
             /\ active_context' = new.current_context
             /\ cache' = [c \in DOMAIN new.cache |->
                             [kind \in DOMAIN new.cache[c] |->
                                [key \in DOMAIN new.cache[c][kind] |->
                                   [new.cache[c][kind][key] EXCEPT !.timestamp = now]]]]
             /\ dirExists' = new.dirExists
             /\ io' = new.io
             /\ ret' = new.ret
    /\ lastPut' = EmptyDict
    /\ restarts' = restarts + 1
    /\ UNCHANGED <<disk, kubeContext, now, puts, cluster, peer,
                   results, threads, pc>>

\* a new process: K8sViewer(cache_ttl, cache_enabled) on what the last one
\* left, its TTL argument drawn from args and its environment from envs
Construct(args, envs) ==
    /\ restarts < MaxRestarts
    /\ \E arg \in args, env \in envs, enabled \in BOOLEAN,
          queryOk \in BOOLEAN, readOk \in BOOLEAN :
          LET new == Constructed(arg, env, enabled, queryOk, readOk, disk,
                                 dirExists, kubeContext)
          IN /\ cache_enabled' = new.cache_enabled
             /\ cache_ttl' = new.cache_ttl
             /\ current_context' = new.current_context
             /\ active_context' = new.current_context
             /\ cache' = new.cache
             /\ dirExists' = new.dirExists
             /\ io' = new.io
             /\ ret' = new.ret
    /\ lastPut' = EmptyDict
    /\ restarts' = restarts + 1
    /\ UNCHANGED <<disk, kubeContext, now, puts, cluster, peer,
                   results, threads, pc>>

----------------------------------------------------------------------------
(* Operations *)

Tick ==
    /\ now < MaxTime
    /\ now' = now + 1
    /\ ret' = Called("tick", "", <<>>)
    /\ UNCHANGED <<cache_enabled, cache_ttl, current_context, cache, disk,
                   dirExists, io, kubeContext, active_context, lastPut,
                   puts, restarts, cluster, peer,
                   results, threads, pc>>

\* variant: the store is updated only when the flush succeeds
UpdateCacheEffect_commit_on_flush(kind, key, data, outcome) ==
    IF ~cache_enabled
    THEN UNCHANGED <<cache, disk, io, lastPut, puts>>
    ELSE /\ cache' = IF outcome = "ok"
                     THEN StorePut(cache, current_context, kind, key, data, now)
                     ELSE cache
         /\ disk' = save_cache(disk, cache', outcome)
         /\ io' = io \cup {"write"}
         /\ lastPut' = DictSet(lastPut, <<kind, key>>,
                               [data |-> data, t0 |-> now, saved |-> (outcome = "ok")])
         /\ puts' = puts + 1

\* variant: the cache_enabled flag is not consulted
UpdateCacheEffect_always(kind, key, data, outcome) ==
    /\ cache' = StorePut(cache, current_context, kind, key, data, now)
    /\ disk' = save_cache(disk, cache', outcome)
    /\ io' = io \cup {"write"}
    /\ lastPut' = DictSet(lastPut, <<kind, key>>,
                          [data |-> data, t0 |-> now, saved |-> (outcome = "ok")])
    /\ puts' = puts + 1

\* update_cache(cache_type, key, data), as a state change
UpdateCacheEffect(kind, key, data, outcome) ==
    IF ~cache_enabled
    THEN UNCHANGED <<cache, disk, io, lastPut, puts>>
    ELSE /\ cache' = StorePut(cache, current_context, kind, key, data, now)
         /\ disk' = save_cache(disk, cache', outcome)
         /\ io' = io \cup {"write"}
         /\ lastPut' = DictSet(lastPut, <<kind, key>>, [data |-> data, t0 |-> now, saved |-> (outcome = "ok")])
         /\ puts' = puts + 1

update_cache ==
    /\ puts < MaxPuts
    /\ \E kind \in Kinds, data \in Payloads, outcome \in WriteOutcomes :
       \E key \in KeysOf(kind) :
          /\ UpdateCacheEffect(kind, key, data, outcome)
          /\ ret' = [Called("update_cache", kind, key) EXCEPT !.ok = (outcome = "ok")]
    /\ UNCHANGED <<cache_enabled, cache_ttl, current_context, dirExists,
                   kubeContext, active_context, now, restarts, cluster, peer,
                   results, threads, pc>>

\* update_cache called with either of two keys of each kind
update_cache_keys ==
    /\ puts < MaxPuts
    /\ \E kind \in Kinds, key \in FrameKeys, data \in Payloads,
          outcome \in WriteOutcomes :
          /\ UpdateCacheEffect(kind, key, data, outcome)
          /\ ret' = [Called("update_cache", kind, key) EXCEPT !.ok = (outcome = "ok")]
    /\ UNCHANGED <<cache_enabled, cache_ttl, current_context, dirExists,
                   kubeContext, active_context, now, restarts, cluster, peer,
                   results, threads, pc>>

\* update_cache('nodes', 'worker', data)
update_cache_nodes ==
    /\ puts < MaxPuts
    /\ \E data \in Payloads, outcome \in WriteOutcomes :
          /\ UpdateCacheEffect("nodes", Worker, data, outcome)
          /\ ret' = [Called("update_cache", "nodes", Worker) EXCEPT !.ok = (outcome = "ok")]
    /\ UNCHANGED <<cache_enabled, cache_ttl, current_context, dirExists,
                   kubeContext, active_context, now, restarts, cluster, peer,
                   results, threads, pc>>

GetCachedData(kind, key) ==
    get_cached_data(cache_enabled, cache, current_context, kind, key, now, cache_ttl)

get_cached_data_call ==
    /\ \E kind \in Kinds : \E key \in KeysOf(kind) :
          LET r == GetCachedData(kind, key) IN
          ret' = IF r.none THEN Gave(Called("get_cached_data", kind, key), r)
                 ELSE FromCache(Called("get_cached_data", kind, key), r)
    /\ UNCHANGED <<cache_enabled, cache_ttl, current_context, cache, disk,
                   dirExists, io, kubeContext, active_context, now, lastPut,
                   puts, restarts, cluster, peer,
                   results, threads, pc>>

\* switch_context(context_name): kubectl config use-context
switch_context ==
    /\ \E target \in Contexts, ok \in BOOLEAN :
          /\ kubeContext' = IF ok THEN target ELSE kubeContext
          /\ active_context' = IF ok THEN target ELSE active_context
          /\ ret' = [Called("switch_context", "", <<>>) EXCEPT !.target = target, !.ok = ok]
    /\ UNCHANGED <<cache_enabled, cache_ttl, current_context, cache, disk,
                   dirExists, io, now, lastPut, puts, restarts, cluster, peer,
                   results, threads, pc>>

\* variant: a failed node-list query stores the empty roster
get_nodes_store_on_failure(group_name) ==
       LET call == Called("get_nodes", "nodes", group_name)
           cached_nodes == GetCachedData("nodes", group_name)
       IN IF Truthy(cached_nodes)
          THEN \* the cached roster is returned, nothing is queried
               /\ ret' = FromCache(call, cached_nodes)
               /\ UNCHANGED <<cache, disk, io, lastPut, puts>>
          ELSE \/ \* the node-list query raises: except -> return []
                  \E outcome \in WriteOutcomes :
                     /\ cache_enabled => puts < MaxPuts
                     /\ UpdateCacheEffect("nodes", group_name, <<>>, outcome)
                     /\ ret' = [Gave(call, Some(<<>>)) EXCEPT !.q.nodes = "fail"]
               \/ \* the node list arrives; get_node_metrics gives {} on failure
                  \E metricsOk \in BOOLEAN, outcome \in WriteOutcomes :
                     LET metrics == get_node_metrics(IF metricsOk
                                                     THEN Returned(cluster.metrics)
                                                     ELSE Failed)
                         nodes == NodesRoster(group_name, cluster.nodes, metrics, now)
                     IN /\ cache_enabled => puts < MaxPuts
                        /\ UpdateCacheEffect("nodes", group_name, nodes, outcome)
                        /\ ret' = [Gave(call, Some(nodes)) EXCEPT
                                      !.q.nodes = "ok", !.q.metrics = Outcome(metricsOk)]

\* get_nodes(group_name)
get_nodes(group_name) ==
       LET call == Called("get_nodes", "nodes", group_name)
           cached_nodes == GetCachedData("nodes", group_name)
       IN IF Truthy(cached_nodes)
          THEN \* the cached roster is returned, nothing is queried
               /\ ret' = FromCache(call, cached_nodes)
               /\ UNCHANGED <<cache, disk, io, lastPut, puts>>
          ELSE \/ \* the node-list query raises: except -> return []
                  /\ ret' = [Gave(call, Some(<<>>)) EXCEPT !.q.nodes = "fail"]
                  /\ UNCHANGED <<cache, disk, io, lastPut, puts>>
               \/ \* the node list arrives; get_node_metrics gives {} on failure
                  \E metricsOk \in BOOLEAN, outcome \in WriteOutcomes :
                     LET metrics == get_node_metrics(IF metricsOk
                                                     THEN Returned(cluster.metrics)
                                                     ELSE Failed)
                         nodes == NodesRoster(group_name, cluster.nodes, metrics, now)
                     IN /\ cache_enabled => puts < MaxPuts
                        /\ UpdateCacheEffect("nodes", group_name, nodes, outcome)
                        /\ ret' = [Gave(call, Some(nodes)) EXCEPT
                                      !.q.nodes = "ok", !.q.metrics = Outcome(metricsOk)]

get_nodes_call ==
    /\ \E group_name \in RequestedGroups : get_nodes(group_name)
    /\ UNCHANGED <<cache_enabled, cache_ttl, current_context, dirExists,
                   kubeContext, active_context, now, restarts, cluster, peer,
                   results, threads, pc>>

\* get_nodes asked for each group name an inventory of GroupClusters can
\* give rise to
get_nodes_of_group_call ==
    /\ \E group_name \in GroupNames : get_nodes(group_name)
    /\ UNCHANGED <<cache_enabled, cache_ttl, current_context, dirExists,
                   kubeContext, active_context, now, restarts, cluster, peer,
                   results, threads, pc>>

\* get_pod_metrics(node_name)
get_pod_metrics ==
    \E node_name \in RequestedNodes :
       LET call == Called("get_pod_metrics", "pods", node_name)
           cached_pods == GetCachedData("pods", node_name)
       IN IF Truthy(cached_pods)
          THEN /\ ret' = FromCache(call, cached_pods)
               /\ UNCHANGED <<cache, disk, io, lastPut, puts>>
          ELSE \/ \* the pod-list query raises: except -> return []
                  /\ ret' = [Gave(call, Some(<<>>)) EXCEPT !.q.pods = "fail"]
                  /\ UNCHANGED <<cache, disk, io, lastPut, puts>>
               \/ \* the pod list arrives; metrics_map is {} when kubectl top fails
                  \E topOk \in BOOLEAN, outcome \in WriteOutcomes :
                     LET OnNode(pod) == pod.nodeName = node_name
                         items == SelectSeq(cluster.pods, OnNode)
                         metrics_map == pod_metrics_map(IF topOk THEN Returned(cluster.top)
                                                        ELSE Failed)
                         pods == PodList(items, metrics_map, now)
                     IN /\ cache_enabled => puts < MaxPuts
                        /\ UpdateCacheEffect("pods", node_name, pods, outcome)
                        /\ ret' = [Gave(call, Some(pods)) EXCEPT
                                      !.q.pods = "ok", !.q.top = Outcome(topOk)]

get_pod_metrics_call ==
    /\ get_pod_metrics
    /\ UNCHANGED <<cache_enabled, cache_ttl, current_context, dirExists,
                   kubeContext, active_context, now, restarts, cluster, peer,
                   results, threads, pc>>

\* get_node_groups(): the three fetches, then classification and aggregation
get_node_groups_call ==
    /\ \E nodesOk \in BOOLEAN, metricsOk \in BOOLEAN :
          LET r == get_node_groups(IF nodesOk THEN Returned(cluster.nodes) ELSE Failed,
                                   IF metricsOk THEN Returned(cluster.metrics) ELSE Failed,
                                   now)
          IN ret' = [Called("get_node_groups", "", <<>>) EXCEPT
                        !.none = r.raised, !.data = r.data, !.raised = r.raised,
                        !.q = [NoQueries EXCEPT !.nodes = Outcome(nodesOk),
                                                !.metrics = Outcome(metricsOk)]]
    /\ UNCHANGED <<cache_enabled, cache_ttl, current_context, cache, disk,
                   dirExists, io, kubeContext, active_context, now, lastPut,
                   puts, restarts, cluster, peer,
                   results, threads, pc>>

\* variant: the search result is written through the cache
search_pods_write_through(pattern) ==
    \/ /\ ret' = [Gave(Called("search_pods", "", pattern), Some(<<>>)) EXCEPT
                      !.q.pods = "fail"]
       /\ UNCHANGED <<cache, disk, io, lastPut, puts>>
    \/ \E metricsOk \in BOOLEAN :
          LET pod_metrics == IF metricsOk THEN RawPodMetrics(cluster.top) ELSE EmptyDict
              matching_pods == MatchingPods(pattern, cluster.pods, pod_metrics, now)
          IN /\ UpdateCacheEffect("pods", pattern, matching_pods, "ok")
             /\ ret' = [Gave(Called("search_pods", "", pattern), Some(matching_pods))
                           EXCEPT !.q.pods = "ok", !.q.top = Outcome(metricsOk)]

\* search_pods(pattern)
search_pods(pattern) ==
    \/ \* the pod-list query raises: except -> return []
       /\ ret' = [Gave(Called("search_pods", "", pattern), Some(<<>>)) EXCEPT
                      !.q.pods = "fail"]
       /\ UNCHANGED <<cache, disk, io, lastPut, puts>>
    \/ \* the pod list arrives; pod_metrics stays {} when its query fails
       \E metricsOk \in BOOLEAN :
          LET pod_metrics == IF metricsOk THEN RawPodMetrics(cluster.top) ELSE EmptyDict
              matching_pods == MatchingPods(pattern, cluster.pods, pod_metrics, now)
          IN /\ ret' = [Gave(Called("search_pods", "", pattern), Some(matching_pods))
                           EXCEPT !.q.pods = "ok", !.q.top = Outcome(metricsOk)]
             /\ UNCHANGED <<cache, disk, io, lastPut, puts>>

search_pods_call ==
    /\ \E pattern \in Patterns : search_pods(pattern)
    /\ UNCHANGED <<cache_enabled, cache_ttl, current_context, dirExists,
                   kubeContext, active_context, now, restarts, cluster, peer,
                   results, threads, pc>>

\* calculate_age(timestamp), called at the clock value now
calculate_age_call ==
    /\ \E timestamp \in Timestamps :
          ret' = [Called("calculate_age", "", timestamp) EXCEPT
                     !.none = FALSE, !.data = calculate_age(timestamp, now)]
    /\ UNCHANGED <<cache_enabled, cache_ttl, current_context, cache, disk,
                   dirExists, io, kubeContext, active_context, now, lastPut,
                   puts, restarts, cluster, peer, results, threads, pc>>

----------------------------------------------------------------------------
(* get_node_groups, thread by thread *)

\* get_karpenter_nodepools: the names of the pools, [] when the query fails
get_karpenter_nodepools(q) ==
    LET Named(name) == Len(name) > 0
    IN IF q.ok THEN SelectSeq(q.items, Named) ELSE <<>>

\* what the sub-fetch f assigns to its slot when its query ended with ok
FetchedValue(f, ok) ==
    IF f = "nodes" THEN (IF ok THEN cluster.nodes ELSE <<>>)
    ELSE IF f = "metrics"
    THEN get_node_metrics(IF ok THEN Returned(cluster.metrics) ELSE Failed)
    ELSE get_karpenter_nodepools(IF ok THEN Returned(cluster.pools) ELSE Failed)

\* variant: join returns as soon as any sub-fetch is over
Joinable_first_completed(thrs, f) == \E g \in DOMAIN thrs : thrs[g].at = "done"

\* t.join() returns once thread f is over
Joinable(thrs, f) == thrs[f].at = "done"

\* results = {...: None}; the three Thread objects are created
get_node_groups_begin ==
    /\ pc.at = "idle"
    /\ results' = NoResults
    /\ threads' = NotStarted
    /\ pc' = [at |-> "start", k |-> 1]
    /\ UNCHANGED <<cache_enabled, cache_ttl, current_context, cache, disk,
                   dirExists, io, kubeContext, active_context, now, lastPut,
                   ret, puts, restarts, cluster, peer>>

\* for t in threads: t.start()
thread_start ==
    /\ pc.at = "start"
    /\ threads' = [threads EXCEPT ![Fetches[pc.k]].at = "ready"]
    /\ pc' = IF pc.k < Len(Fetches) THEN [pc EXCEPT !.k = @ + 1]
             ELSE [at |-> "join", k |-> 1]
    /\ UNCHANGED <<cache_enabled, cache_ttl, current_context, cache, disk,
                   dirExists, io, kubeContext, active_context, now, lastPut,
                   ret, puts, restarts, cluster, peer, results>>

\* variant: the except branch of a sub-fetch resets the whole holder to its
\* empty defaults
Fetch_clears_on_failure(f) ==
    /\ \/ /\ threads[f].at = "ready"
          /\ \/ \E ok \in BOOLEAN :
                   threads' = [threads EXCEPT
                                  ![f] = [at |-> "fetched", ok |-> ok, n |-> @.n + 1]]
             \/ threads' = [threads EXCEPT ![f].at = "hung", ![f].n = @ + 1]
          /\ UNCHANGED results
       \/ /\ threads[f].at = "fetched"
          /\ results' = IF threads[f].ok
                        THEN [results EXCEPT ![f] = Some(FetchedValue(f, TRUE))]
                        ELSE [g \in DOMAIN results |-> Some(FetchedValue(g, FALSE))]
          /\ threads' = [threads EXCEPT ![f].at = "done"]
    /\ UNCHANGED <<cache_enabled, cache_ttl, current_context, cache, disk,
                   dirExists, io, kubeContext, active_context, now, lastPut,
                   ret, puts, restarts, cluster, peer, pc>>

\* variant: a sub-fetch whose query failed issues it once more
Fetch_retry_on_failure(f) ==
    /\ \/ /\ threads[f].at = "ready"
          /\ \/ \E ok \in BOOLEAN :
                   threads' = [threads EXCEPT
                                  ![f] = [at |-> "fetched", ok |-> ok, n |-> @.n + 1]]
             \/ threads' = [threads EXCEPT ![f].at = "hung", ![f].n = @ + 1]
          /\ UNCHANGED results
       \/ /\ threads[f].at = "fetched"
          /\ IF ~threads[f].ok /\ threads[f].n < 2
             THEN /\ threads' = [threads EXCEPT ![f].at = "ready"]
                  /\ UNCHANGED results
             ELSE /\ results' = [results EXCEPT
                                    ![f] = Some(FetchedValue(f, threads[f].ok))]
                  /\ threads' = [threads EXCEPT ![f].at = "done"]
    /\ UNCHANGED <<cache_enabled, cache_ttl, current_context, cache, disk,
                   dirExists, io, kubeContext, active_context, now, lastPut,
                   ret, puts, restarts, cluster, peer, pc>>

\* variant: a sub-fetch also stores what it fetched in the cache store
Fetch_caches_slot(f) ==
    /\ \/ /\ threads[f].at = "ready"
          /\ \/ \E ok \in BOOLEAN :
                   threads' = [threads EXCEPT
                                  ![f] = [at |-> "fetched", ok |-> ok, n |-> @.n + 1]]
             \/ threads' = [threads EXCEPT ![f].at = "hung", ![f].n = @ + 1]
          /\ UNCHANGED results
          /\ UNCHANGED cache
       \/ /\ threads[f].at = "fetched"
          /\ results' = [results EXCEPT ![f] = Some(FetchedValue(f, threads[f].ok))]
          /\ threads' = [threads EXCEPT ![f].at = "done"]
          /\ cache' = StorePut(cache, current_context, "nodes", f,
                               FetchedValue(f, threads[f].ok), now)
    /\ UNCHANGED <<cache_enabled, cache_ttl, current_context, disk,
                   dirExists, io, kubeContext, active_context, now, lastPut,
                   ret, puts, restarts, cluster, peer, pc>>

\* a sub-fetch thread: its query is issued and returns, fails or never
\* returns; once it is over the slot is assigned (the fetched value, or the
\* empty default in the except branch) and the thread ends
Fetch(f) ==
    /\ \/ /\ threads[f].at = "ready"
          /\ \/ \E ok \in BOOLEAN :
                   threads' = [threads EXCEPT
                                  ![f] = [at |-> "fetched", ok |-> ok, n |-> @.n + 1]]
             \/ threads' = [threads EXCEPT ![f].at = "hung", ![f].n = @ + 1]
          /\ UNCHANGED results
       \/ /\ threads[f].at = "fetched"
          /\ results' = [results EXCEPT ![f] = Some(FetchedValue(f, threads[f].ok))]
          /\ threads' = [threads EXCEPT ![f].at = "done"]
    /\ UNCHANGED <<cache_enabled, cache_ttl, current_context, cache, disk,
                   dirExists, io, kubeContext, active_context, now, lastPut,
                   ret, puts, restarts, cluster, peer, pc>>

fetch_nodes == Fetch("nodes")

fetch_metrics == Fetch("metrics")

fetch_karpenter == Fetch("karpenter")

\* variant: a join gives up waiting, as t.join(timeout) would
thread_join_timeout ==
    /\ pc.at = "join"
    /\ pc' = IF pc.k < Len(Fetches) THEN [pc EXCEPT !.k = @ + 1]
             ELSE [at |-> "classify", k |-> 1]
    /\ UNCHANGED <<cache_enabled, cache_ttl, current_context, cache, disk,
                   dirExists, io, kubeContext, active_context, now, lastPut,
                   ret, puts, restarts, cluster, peer, results, threads>>

\* for t in threads: t.join()
thread_join ==
    /\ pc.at = "join"
    /\ Joinable(threads, Fetches[pc.k])
    /\ pc' = IF pc.k < Len(Fetches) THEN [pc EXCEPT !.k = @ + 1]
             ELSE [at |-> "classify", k |-> 1]
    /\ UNCHANGED <<cache_enabled, cache_ttl, current_context, cache, disk,
                   dirExists, io, kubeContext, active_context, now, lastPut,
                   ret, puts, restarts, cluster, peer, results, threads>>

\* the rest of get_node_groups: the holder is read, the nodes are classified
\* and aggregated; reading .get of a slot that is still None raises
get_node_groups_finish ==
    /\ pc.at = "classify"
    /\ LET r == IF results["nodes"].none THEN Raises
                 ELSE IF results["metrics"].none
                 THEN (IF Len(results["nodes"].data) > 0 THEN Raises ELSE Returns(<<>>))
                 ELSE aggregate(results["nodes"].data, results["metrics"].data, now)
       IN ret' = [Called("get_node_groups", "", <<>>) EXCEPT
                     !.none = r.raised, !.data = r.data, !.raised = r.raised,
                     !.q = [NoQueries EXCEPT
                               !.nodes = Outcome(threads["nodes"].ok),
                               !.metrics = Outcome(threads["metrics"].ok)]]
    /\ pc' = Idle
    /\ UNCHANGED <<cache_enabled, cache_ttl, current_context, cache, disk,
                   dirExists, io, kubeContext, active_context, now, lastPut,
                   puts, restarts, cluster, peer, results, threads>>

----------------------------------------------------------------------------
(* The K8sViewer class of k8s_viewer.py *)

\* k8s_viewer.K8sViewer.update_cache(cache_type, key, data): the same text as
\* in main.py, but the class defines no format_timestamp, so the call
\* self.format_timestamp(current_time) raises AttributeError once the entry
\* is in the store and before save_cache is reached
k8s_viewer_update_cache ==
    /\ cache_enabled => puts < MaxPuts
    /\ \E kind \in Kinds, data \in Payloads :
       \E key \in KeysOf(kind) :
          IF ~cache_enabled
          THEN /\ ret' = Called("k8s_viewer.update_cache", kind, key)
               /\ UNCHANGED <<cache, lastPut, puts>>
          ELSE /\ cache' = StorePut(cache, current_context, kind, key, data, now)
               /\ lastPut' = DictSet(lastPut, <<kind, key>>,
                                     [data |-> data, t0 |-> now, saved |-> FALSE])
               /\ puts' = puts + 1
               /\ ret' = [Called("k8s_viewer.update_cache", kind, key) EXCEPT
                             !.ok = FALSE, !.raised = TRUE]
    /\ UNCHANGED <<cache_enabled, cache_ttl, current_context, disk, dirExists,
                   io, kubeContext, active_context, now, restarts, cluster,
                   peer, results, threads, pc>>

----------------------------------------------------------------------------
(* A second process on the same cache file *)

\* K8sViewer() in another process, caching enabled, under the same kubectl
\* context: it loads the file as it is now
peer_construct ==
    /\ ~peer.up
    /\ \E readOk \in BOOLEAN :
          peer' = [up |-> TRUE, cache |-> load_cache(disk, kubeContext, readOk)]
    /\ ret' = [Called("peer_construct", "", <<>>) EXCEPT !.ctx = kubeContext]
    /\ UNCHANGED <<cache_enabled, cache_ttl, current_context, cache, disk,
                   dirExists, io, kubeContext, active_context, now, lastPut,
                   puts, restarts, cluster, results, threads, pc>>

\* variant: the second process reads the file again before it writes
peer_update_cache_reload ==
    /\ peer.up
    /\ puts < MaxPuts
    /\ \E kind \in Kinds, data \in Payloads, outcome \in WriteOutcomes :
       \E key \in KeysOf(kind) :
          LET store == StorePut(load_cache(disk, kubeContext, TRUE), kubeContext,
                                kind, key, data, now)
          IN /\ peer' = [peer EXCEPT !.cache = store]
             /\ disk' = save_cache(disk, store, outcome)
             /\ ret' = [Called("peer_update_cache", kind, key) EXCEPT
                           !.ctx = kubeContext, !.ok = (outcome = "ok")]
    /\ puts' = puts + 1
    /\ UNCHANGED <<cache_enabled, cache_ttl, current_context, cache,
                   dirExists, io, kubeContext, active_context, now, lastPut,
                   restarts, cluster, results, threads, pc>>

\* update_cache(cache_type, key, data) in the second process: its own store
\* gets the entry and is dumped to the shared file
peer_update_cache ==
    /\ peer.up
    /\ puts < MaxPuts
    /\ \E kind \in Kinds, data \in Payloads, outcome \in WriteOutcomes :
       \E key \in KeysOf(kind) :
          LET store == StorePut(peer.cache, kubeContext, kind, key, data, now)
          IN /\ peer' = [peer EXCEPT !.cache = store]
             /\ disk' = save_cache(disk, store, outcome)
             /\ ret' = [Called("peer_update_cache", kind, key) EXCEPT
                           !.ctx = kubeContext, !.ok = (outcome = "ok")]
    /\ puts' = puts + 1
    /\ UNCHANGED <<cache_enabled, cache_ttl, current_context, cache,
                   dirExists, io, kubeContext, active_context, now, lastPut,
                   restarts, cluster, results, threads, pc>>

----------------------------------------------------------------------------
(* Specifications *)

\* the cache store of one process, driven through its own interface
Init == InitWith({EmptyCluster}, TtlArgs, EnvTtls, BOOLEAN)

Next ==
    \/ Tick
    \/ update_cache
    \/ get_cached_data_call
    \/ switch_context

Spec == Init /\ [][Next]_vars

\* the cache file across processes: each new process loads what the last
\* one wrote
InitRestart == InitWith({EmptyCluster}, {NoTtlArg}, {NoTtlEnv}, BOOLEAN)

NextRestart ==
    \/ Construct({NoTtlArg}, {NoTtlEnv})
    \/ update_cache
    \/ get_cached_data_call
    \/ switch_context

SpecRestart == InitRestart /\ [][NextRestart]_vars

\* the read paths that go through the cache
InitEngine == InitWith({EngineCluster}, TtlArgs, EnvTtls, BOOLEAN)

NextEngine ==
    \/ Tick
    \/ get_nodes_call
    \/ get_pod_metrics_call

SpecEngine == InitEngine /\ [][NextEngine]_vars

\* get_node_groups over every inventory of at most MaxNodes nodes
InitGroups == InitWith(GroupClusters, {NoTtlArg}, {NoTtlEnv}, {TRUE})

NextGroups ==
    \/ get_node_groups_call

SpecGroups == InitGroups /\ [][NextGroups]_vars

\* get_nodes on a cache miss, for every group name over the same inventories
InitRoster == InitWith(GroupClusters, {NoTtlArg}, {NoTtlEnv}, {FALSE})

NextRoster ==
    \/ get_nodes_of_group_call

SpecRoster == InitRoster /\ [][NextRoster]_vars

\* get_node_groups with its three sub-fetch threads interleaved
InitFanout ==
    InitWith({EngineCluster, EmptyCluster, TwoGroupCluster}, {NoTtlArg}, {NoTtlEnv}, {TRUE})

NextFanout ==
    \/ get_node_groups_begin
    \/ thread_start
    \/ fetch_nodes
    \/ fetch_metrics
    \/ fetch_karpenter
    \/ thread_join
    \/ get_node_groups_finish

SpecFanout == InitFanout /\ [][NextFanout]_vars

\* the fan-out with every started thread and the orchestrator scheduled
\* again and again: a step that stays possible is eventually taken (whether
\* the caller starts another pass is left open)
InitFanoutLive == InitWith({EngineCluster, EmptyCluster}, {NoTtlArg}, {NoTtlEnv}, {TRUE})

SpecFanoutLive ==
    /\ InitFanoutLive
    /\ [][NextFanout]_vars
    /\ WF_vars(thread_start)
    /\ WF_vars(fetch_nodes)
    /\ WF_vars(fetch_metrics)
    /\ WF_vars(fetch_karpenter)
    /\ WF_vars(thread_join)
    /\ WF_vars(get_node_groups_finish)

\* the four read operations of the engine, called in any order
InitCalls == InitWith({EngineCluster}, {NoTtlArg}, {NoTtlEnv}, BOOLEAN)

NextCalls ==
    \/ get_node_groups_call
    \/ get_nodes_call
    \/ get_pod_metrics_call
    \/ search_pods_call

SpecCalls == InitCalls /\ [][NextCalls]_vars

\* calculate_age over its inputs, as the clock advances
InitAge == InitWith({EmptyCluster}, {NoTtlArg}, {NoTtlEnv}, {TRUE})

NextAge ==
    \/ Tick
    \/ calculate_age_call

SpecAge == InitAge /\ [][NextAge]_vars

\* the file an earlier process left: it ran under context ctxB and stored
\* one entry before this process started
PriorStore ==
    StorePut(FreshStore("ctxB"), "ctxB", "nodes", Worker, <<[name |-> N1]>>, 0 - 1)

\* puts to several keys as the clock advances, by a process constructed
\* under context ctxA on that file
InitFrame ==
    /\ \E enabled \in BOOLEAN :
          LET new == Constructed(NoTtlArg, NoTtlEnv, enabled, TRUE, TRUE,
                                 OkFile(PriorStore), TRUE, "ctxA")
          IN /\ cache_enabled = new.cache_enabled
             /\ cache_ttl = new.cache_ttl
             /\ current_context = new.current_context
             /\ active_context = new.current_context
             /\ cache = new.cache
             /\ dirExists = new.dirExists
             /\ io = new.io
             /\ ret = new.ret
    /\ disk = OkFile(PriorStore)
    /\ kubeContext = "ctxA"
    /\ now = 0
    /\ lastPut = EmptyDict
    /\ cluster = EmptyCluster
    /\ peer = NoPeer
    /\ puts = 0
    /\ restarts = 0
    /\ results = NoResults
    /\ threads = NotStarted
    /\ pc = Idle

NextFrame ==
    \/ Tick
    \/ update_cache_keys

SpecFrame == InitFrame /\ [][NextFrame]_vars

\* memory quantities a node can report: plain bytes, Ki, Mi, Gi, '<unknown>'
MemoryQuantities ==
    {<<"0">>, <<"2", "0", "4", "8">>, Quantity1024Ki, Quantity2048Ki,
     Quantity64Mi, <<"1", "G", "i">>, Unknown}

\* one plain worker whose capacity and allocatable memory are given
MemoryCluster(capacity, allocatable) ==
    [EmptyCluster EXCEPT
        !.nodes = << RawNode(N1, EmptyDict, IsoTs(0 - 90), ReadyTrue,
                             Resources(<<"2">>, capacity),
                             Resources(<<"2">>, allocatable)) >>]

\* get_node_groups and get_nodes (cache disabled) on a node of each pair of
\* memory quantities
InitMemory ==
    InitWith({MemoryCluster(c, a) : c \in MemoryQuantities, a \in MemoryQuantities},
             {NoTtlArg}, {NoTtlEnv}, {FALSE})

NextMemory ==
    \/ get_node_groups_call
    \/ get_nodes_of_group_call

SpecMemory == InitMemory /\ [][NextMemory]_vars


\* puts, reads and restarts as the clock advances: each new process loads
\* the file the last one left, with a TTL of 2 where the first had the default
InitReload == InitWith({EmptyCluster}, {NoTtlArg}, {NoTtlEnv}, {TRUE})

NextReload ==
    \/ Tick
    \/ update_cache_nodes
    \/ get_cached_data_call
    \/ Construct({[given |-> TRUE, val |-> 2]}, {NoTtlEnv})

SpecReload == InitReload /\ [][NextReload]_vars

\* two processes that put through the same cache file
InitShared == InitWith({EmptyCluster}, {NoTtlArg}, {NoTtlEnv}, {TRUE})

NextShared ==
    \/ update_cache
    \/ peer_construct
    \/ peer_update_cache

SpecShared == InitShared /\ [][NextShared]_vars

\* the cache interface of both K8sViewer classes on the same instance state
InitTwin == InitWith({EmptyCluster}, {NoTtlArg}, EnvTtls, BOOLEAN)

NextTwin ==
    \/ Tick
    \/ update_cache
    \/ k8s_viewer_update_cache
    \/ get_cached_data_call

SpecTwin == InitTwin /\ [][NextTwin]_vars

----------------------------------------------------------------------------
(* Properties *)

AllKeys == {<<kind, key>> : kind \in Kinds, key \in GroupKeys \cup NodeKeys
                                             \cup RequestedGroups \cup RequestedNodes}

\* C1: with caching enabled, after update_cache(kind, key, X) at time t0 and
\* no later put to that key, get_cached_data(kind, key) gives X (also X = [])
\* while now - t0 < TTL and a miss once now - t0 >= TTL.
C1_RoundTrip ==
    cache_enabled =>
       /\ \A k \in DOMAIN lastPut :
             GetCachedData(k[1], k[2]) =
                IF now - lastPut[k].t0 < cache_ttl THEN Some(lastPut[k].data) ELSE None
       /\ (ret.op = "get_cached_data" /\ <<ret.kind, ret.key>> \in DOMAIN lastPut) =>
             IF now - lastPut[<<ret.kind, ret.key>>].t0 < cache_ttl
             THEN ~ret.none /\ ret.data = lastPut[<<ret.kind, ret.key>>].data
             ELSE ret.none

\* C1 witness: a get of a key that was put, made once the TTL has elapsed
C1_Witness ==
    /\ cache_enabled
    /\ ret.op = "get_cached_data"
    /\ ret.none
    /\ <<ret.kind, ret.key>> \in DOMAIN lastPut
    /\ now - lastPut[<<ret.kind, ret.key>>].t0 >= cache_ttl

\* C2: an entry stored under context A is never returned by a read made
\* while the active context is B # A.
C2_Isolation ==
    ret.fromCache => ret.ctx = active_context

\* C3: after a successful switch_context(B) the engine's current_context is
\* B, and the in-memory store is what it was before the switch.
C3_SwitchSwapsContext ==
    [][(ret'.op = "switch_context" /\ ret'.ok)
          => (current_context' = ret'.target /\ cache' = cache)]_vars

\* C4: get_nodes and get_pod_metrics never return the payload of an entry
\* whose age is >= TTL, and when the refetch after a miss fails the caller
\* receives the empty list.
C4_NoStalePayload ==
    ret.op \in {"get_nodes", "get_pod_metrics"} =>
       /\ ret.fromCache => ret.age < cache_ttl
       /\ (ret.q.nodes = "fail" \/ ret.q.pods = "fail") =>
             ~ret.fromCache /\ ~ret.none /\ ret.data = <<>>

\* C4 witness: the refetch failed while an expired, non-empty entry for the
\* key is still in the store
C4_Witness ==
    /\ ret.op = "get_nodes"
    /\ ret.q.nodes = "fail"
    /\ HasEntry(cache, current_context, "nodes", ret.key)
    /\ cache[current_context]["nodes"][ret.key].data # <<>>
    /\ now - cache[current_context]["nodes"][ret.key].timestamp >= cache_ttl

\* C5: right after an update_cache whose write succeeded, the file holds the
\* entire in-memory store: every context, kind and key.
C5_WholeStoreFlushed ==
    (ret.op = "update_cache" /\ cache_enabled /\ ret.ok) =>
       /\ disk.st = "ok"
       /\ DOMAIN disk.data = DOMAIN cache
       /\ \A c \in DOMAIN cache : disk.data[c] = cache[c]

\* C5 witness: a successful put while the store holds a second context that
\* has an entry
C5_Witness ==
    /\ ret.op = "update_cache" /\ cache_enabled /\ ret.ok
    /\ \E c \in DOMAIN cache \ {current_context} :
          \E kind \in DOMAIN cache[c] : DOMAIN cache[c][kind] # {}

\* C6: when the durable write of a put fails, update_cache returns normally,
\* the store holds the new entry, and get_cached_data returns it while it is
\* within the TTL, whatever later writes do.
C6_MemoryAuthoritative ==
    cache_enabled =>
       /\ \A k \in DOMAIN lastPut :
             (~lastPut[k].saved /\ now - lastPut[k].t0 < cache_ttl) =>
                GetCachedData(k[1], k[2]) = Some(lastPut[k].data)
       /\ (ret.op = "update_cache" /\ ~ret.ok) =>
             /\ ~ret.raised
             /\ HasEntry(cache, current_context, ret.kind, ret.key)
             /\ cache[current_context][ret.kind][ret.key] =
                   [data |-> lastPut[<<ret.kind, ret.key>>].data, timestamp |-> now]

\* C6 witness: a put whose write failed is read back, after a later put to
\* another key
C6_Witness ==
    /\ cache_enabled
    /\ ret.op = "get_cached_data" /\ ~ret.none
    /\ <<ret.kind, ret.key>> \in DOMAIN lastPut
    /\ ~lastPut[<<ret.kind, ret.key>>].saved
    /\ \E k \in DOMAIN lastPut : k # <<ret.kind, ret.key>>

\* C7: with caching disabled every get misses, every put leaves the store
\* empty, and no durable-storage operation happens, construction included.
C7_DisabledState ==
    ~cache_enabled =>
       /\ cache = EmptyDict
       /\ io = {}
       /\ \A k \in AllKeys : GetCachedData(k[1], k[2]) = None
       /\ ret.op = "get_cached_data" => ret.none

C7_DisabledStep ==
    ~cache_enabled' => (disk' = disk /\ dirExists' = dirExists)

C7_Disabled == []C7_DisabledState /\ [][C7_DisabledStep]_vars

\* C7 witness: a put on an instance without caching, next to a cache file
\* left by an earlier instance
C7_Witness ==
    /\ ~cache_enabled
    /\ ret.op = "update_cache"
    /\ disk.st = "ok"

\* C8: constructed on a readable file that lacks the active context, the
\* store holds every context of the file unchanged plus an empty sub-map for
\* the active context.
C8_LoadKeepsOtherContexts ==
    (/\ ret.op = "construct" /\ cache_enabled /\ ret.ok
     /\ disk.st = "ok" /\ current_context \notin DOMAIN disk.data) =>
       /\ DOMAIN cache = DOMAIN disk.data \cup {current_context}
       /\ \A c \in DOMAIN disk.data : cache[c] = disk.data[c]
       /\ DOMAIN cache[current_context] = {"nodes", "pods"}
       /\ \A kind \in {"nodes", "pods"} : DOMAIN cache[current_context][kind] = {}

\* C8 witness: such a construction on a file that holds an entry of another
\* context
C8_Witness ==
    /\ ret.op = "construct" /\ cache_enabled /\ ret.ok
    /\ disk.st = "ok" /\ current_context \notin DOMAIN disk.data
    /\ \E c \in DOMAIN disk.data : \E kind \in DOMAIN disk.data[c] :
          DOMAIN disk.data[c][kind] # {}

RuleGroup(labels, Has(_, _)) ==
    IF Has(labels, EksLabel) THEN EksPrefix \o labels[EksLabel]
    ELSE IF Has(labels, KarpenterLabel) THEN KarpenterPrefix \o labels[KarpenterLabel]
    ELSE IF ReservedLabel \in DOMAIN labels /\ labels[ReservedLabel] = CoreServices
         THEN CoreServices
    ELSE Worker

LabelPresent(labels, label) == label \in DOMAIN labels
LabelNonEmpty(labels, label) == label \in DOMAIN labels /\ Len(labels[label]) > 0

\* the list get_node_groups returned puts every node of the inventory in the
\* one group the rule table names
GroupedBy(Has(_, _)) ==
    LET nodes == cluster.nodes
        groups == ret.data
        Rule(j) == RuleGroup(nodes[j].labels, Has)
    IN (ret.op = "get_node_groups" /\ ret.q.nodes = "ok" /\ ~ret.raised) =>
          /\ {groups[i].name : i \in 1..Len(groups)} = {Rule(j) : j \in 1..Len(nodes)}
          /\ \A i, k \in 1..Len(groups) : groups[i].name = groups[k].name => i = k
          /\ \A i \in 1..Len(groups) :
                groups[i].count =
                   Cardinality({j \in 1..Len(nodes) : Rule(j) = groups[i].name})

NodeNamed(name) ==
    CHOOSE j \in 1..Len(cluster.nodes) : cluster.nodes[j].name = name

InRoster(j) == \E i \in 1..Len(ret.data) : ret.data[i].name = cluster.nodes[j].name

\* C11: on a cache miss get_nodes(g) returns only nodes whose group by the
\* get_node_groups precedence is g; a node with a managed-pool label and an
\* autoscaler-pool label or reserved = 'core-services' is returned for its
\* 'eks:' group and for no other group name.
C11_RosterFollowsPrecedence ==
    (ret.op = "get_nodes" /\ ~ret.fromCache /\ ret.q.nodes = "ok") =>
       /\ \A i \in 1..Len(ret.data) :
             GroupNameOf(cluster.nodes[NodeNamed(ret.data[i].name)].labels) = ret.key
       /\ \A j \in 1..Len(cluster.nodes) :
             LET labels == cluster.nodes[j].labels
             IN (/\ Truthy(Get(labels, EksLabel))
                 /\ \/ KarpenterLabel \in DOMAIN labels
                    \/ Get(labels, ReservedLabel) = Some(CoreServices)) =>
                   (InRoster(j) <=> ret.key = EksPrefix \o labels[EksLabel])

AllFetched == \A f \in DOMAIN threads : threads[f].at = "done"

\* C12: in every interleaving of the three sub-fetch threads, get_node_groups
\* reads the result holder and classifies only after all three sub-fetches
\* are over.
C12_ReadAfterAllJoined ==
    /\ pc.at = "classify" => AllFetched
    /\ (ret.op = "get_node_groups" /\ pc.at = "idle") => AllFetched

\* C12 witness: the orchestrator is past the joins and about to read the
\* holder, the last-started sub-fetch having failed
C12_Witness ==
    /\ pc.at = "classify"
    /\ AllFetched
    /\ ~threads["karpenter"].ok

\* C13: whatever sub-fetches fail, after the join every slot holds its
\* fetched value or its empty default, never None, and get_node_groups
\* returns a list.
C13_SlotsSetAndListReturned ==
    /\ pc.at = "classify" =>
          \A f \in DOMAIN results :
             /\ ~results[f].none
             /\ results[f].data = FetchedValue(f, threads[f].ok)
             /\ ~threads[f].ok => results[f].data = <<>>
    /\ ret.op = "get_node_groups" => ~ret.raised

\* C14: when the metrics sub-fetch fails and the node list arrives,
\* get_node_groups returns the groups, names and counts it returns with
\* metrics available, each with used_cpu = "0m" and used_memory = "0.0B".
C14_MetricsFailureDegrades ==
    (ret.op = "get_node_groups" /\ ret.q.nodes = "ok" /\ ret.q.metrics = "fail") =>
       LET with_metrics == get_node_groups(Returned(cluster.nodes),
                                           Returned(cluster.metrics), now)
       IN /\ ret.raised = with_metrics.raised
          /\ Len(ret.data) = Len(with_metrics.data)
          /\ \A i \in 1..Len(ret.data) :
                /\ ret.data[i].name = with_metrics.data[i].name
                /\ ret.data[i].count = with_metrics.data[i].count
                /\ ret.data[i].used_cpu = <<"0", "m">>
                /\ ret.data[i].used_memory = <<"0", ".", "0", "B">>

\* C14 witness: two groups returned without metrics, for an inventory whose
\* metrics would have shown usage
C14_Witness ==
    /\ ret.op = "get_node_groups" /\ ret.q.nodes = "ok" /\ ret.q.metrics = "fail"
    /\ ~ret.raised
    /\ Len(ret.data) = 2
    /\ \E i \in 1..2 :
          get_node_groups(Returned(cluster.nodes), Returned(cluster.metrics),
                          now).data[i].used_cpu # <<"0", "m">>

\* C20: the list get_node_groups returns is strictly ascending by group
\* name in code-point order (upper case before lower case), so no name
\* appears twice.
C20_SortedByName ==
    (ret.op = "get_node_groups" /\ ~ret.raised) =>
       \A i \in 1..(Len(ret.data) - 1) :
          StrLess(ret.data[i].name, ret.data[i + 1].name)

\* C20 witness: the pool 'PZ' is listed before the pool 'pa' although the
\* node of 'pa' comes first in the inventory
C20_Witness ==
    /\ ret.op = "get_node_groups" /\ ~ret.raised
    /\ Len(cluster.nodes) = 2
    /\ Get(cluster.nodes[1].labels, EksLabel) = Some(PoolA)
    /\ Get(cluster.nodes[2].labels, EksLabel) = Some(PoolUpper)
    /\ Len(ret.data) = 2
    /\ ret.data[1].name = EksPrefix \o PoolUpper
    /\ ret.data[2].name = EksPoolA

\* C15: when the primary query fails (the node list in get_node_groups and
\* get_nodes, the pod list in get_pod_metrics and search_pods) the call
\* returns the empty list and does not raise.
C15_PrimaryFailureGivesEmptyList ==
    (\/ ret.op \in {"get_node_groups", "get_nodes"} /\ ret.q.nodes = "fail"
     \/ ret.op \in {"get_pod_metrics", "search_pods"} /\ ret.q.pods = "fail") =>
       /\ ~ret.raised
       /\ ~ret.none
       /\ ret.data = <<>>

\* C15 witness: the node-list query of get_node_groups failed on an
\* inventory that has nodes
C15_Witness ==
    /\ ret.op = "get_node_groups"
    /\ ret.q.nodes = "fail"
    /\ Len(cluster.nodes) > 0
    /\ ret.data = <<>>

\* C16: the constructor, get_node_groups, get_nodes, get_pod_metrics and
\* search_pods return normally for every query outcome and every inventory:
\* no exception reaches the caller.
C16_NothingRaises ==
    ret.op \in {"construct", "get_node_groups", "get_nodes", "get_pod_metrics",
                "search_pods"} => ~ret.raised

EntryValid(kind, key) ==
    /\ cache_enabled
    /\ HasEntry(cache, current_context, kind, key)
    /\ is_cache_valid(cache_enabled, cache[current_context][kind][key], now, cache_ttl)

\* C17: a successful fetch of get_nodes(g) / get_pod_metrics(n) is stored
\* under 'nodes'/g resp. 'pods'/n, and a call made while that entry is valid
\* returns its payload (the empty list included) without any query.
C17_ValidEntryShortCircuits ==
    [][ret'.op \in {"get_nodes", "get_pod_metrics"} =>
          /\ (cache_enabled /\ ~ret'.fromCache
                 /\ (ret'.q.nodes = "ok" \/ ret'.q.pods = "ok")) =>
                /\ HasEntry(cache', current_context, ret'.kind, ret'.key)
                /\ cache'[current_context][ret'.kind][ret'.key].data = ret'.data
          /\ EntryValid(ret'.kind, ret'.key) =>
                /\ ret'.fromCache
                /\ ret'.data = cache[current_context][ret'.kind][ret'.key].data
                /\ ret'.q = NoQueries]_vars

\* C18: after a successful get_node_groups with caching enabled, the store
\* holds the aggregated result under the active context and the file holds
\* the store.
C18_AggregationIsCached ==
    (ret.op = "get_node_groups" /\ ~ret.raised /\ ret.q.nodes = "ok" /\ cache_enabled) =>
       /\ \E kind \in DOMAIN cache[current_context] :
             \E key \in DOMAIN cache[current_context][kind] :
                cache[current_context][kind][key].data = ret.data
       /\ disk.st = "ok"
       /\ disk.data = cache

\* C19: search_pods issues a fresh pod-list query whatever the store holds,
\* and leaves the store and the file as they were.
C19_SearchBypassesCache ==
    [][ret'.op = "search_pods" =>
          /\ cache' = cache
          /\ disk' = disk
          /\ io' = io
          /\ ~ret'.fromCache
          /\ ret'.q.pods # "none"
          /\ ret'.data =
                IF ret'.q.pods = "fail" THEN <<>>
                ELSE MatchingPods(ret'.key, cluster.pods,
                                  IF ret'.q.top = "ok" THEN RawPodMetrics(cluster.top)
                                  ELSE EmptyDict, now)]_vars

\* C19 witness: a search that found pods, made while the store holds the
\* pod list of a node and the file is written
C19_Witness ==
    /\ ret.op = "search_pods"
    /\ ret.q.pods = "ok"
    /\ Len(ret.data) > 0
    /\ cache_enabled
    /\ DOMAIN cache[current_context]["pods"] # {}
    /\ disk.st = "ok"

\* C21: two get_node_groups passes over the same node list, the same metrics
\* map and the same clock value return the same list of group summaries (or
\* end the same way), whatever the order in which the sub-fetch threads of
\* each pass complete.
C21_PassesAgree ==
    [][(/\ ret.op = "get_node_groups"
        /\ pc.at = "classify" /\ pc'.at = "idle"
        /\ ret'.q = ret.q
        /\ now' = now /\ cluster' = cluster)
          => (ret'.raised = ret.raised /\ ret'.data = ret.data)]_vars

\* C21 witness: a second pass is about to read the holder, its node-list and
\* metrics queries having ended as in the pass that returned two groups
\* before it
C21_Witness ==
    /\ ret.op = "get_node_groups" /\ ~ret.raised
    /\ Len(ret.data) = 2
    /\ pc.at = "classify"
    /\ ret.q.nodes = Outcome(threads["nodes"].ok)
    /\ ret.q.metrics = Outcome(threads["metrics"].ok)
    /\ ~threads["karpenter"].ok

\* C22: a TTL value t passed to the constructor (t = 0 included) is the
\* TTL of the engine whatever the environment says, and the TTL does not
\* change while the instance lives.
C22_CallerTtlWins ==
    [][/\ (ret.op = "construct" /\ ret.arg.given) => cache_ttl = ret.arg.val
       /\ ret'.op # "construct" => cache_ttl' = cache_ttl]_vars

\* C23: whatever the memory quantity of a node's capacity or allocatable
\* field, get_node_groups and get_nodes do not raise and the node is still
\* aggregated: it is counted in a group, and listed in the roster of its
\* group.
C23_MemoryParseNeverRaises ==
    /\ (ret.op = "get_node_groups" /\ ret.q.nodes = "ok") =>
          /\ ~ret.raised
          /\ SumSeq([i \in 1..Len(ret.data) |-> ret.data[i].count]) = Len(cluster.nodes)
    /\ (ret.op = "get_nodes" /\ ~ret.fromCache /\ ret.q.nodes = "ok") =>
          /\ ~ret.raised
          /\ \A j \in 1..Len(cluster.nodes) :
                InGroup(ret.key, cluster.nodes[j].labels) => InRoster(j)

\* C24: for a well-formed timestamp and elapsed = now - created seconds
\* (negative for a timestamp in the future) calculate_age returns
\* floor(elapsed/60) 'm' if elapsed < 3600, floor(elapsed/3600) 'h' if
\* elapsed < 86400, else floor(elapsed/86400) 'd'; an empty or unparsable
\* timestamp gives 'N/A'.
C24_AgeIsFloored ==
    ret.op = "calculate_age" =>
       ret.data =
          IF ret.key.fmt # "iso" THEN NA
          ELSE LET elapsed == now - ret.key.secs
               IN IF elapsed < 3600 THEN IntStr(elapsed \div 60) \o <<"m">>
                  ELSE IF elapsed < 86400 THEN IntStr(elapsed \div 3600) \o <<"h">>
                  ELSE IntStr(elapsed \div 86400) \o <<"d">>

\* C25: a get_node_groups pass issues the node-list, the node-metrics and
\* the autoscaler-pool query exactly once each, whether the query succeeds
\* or fails.
C25_EachQueryOnce ==
    /\ \A f \in DOMAIN threads : threads[f].n <= 1
    /\ (pc.at = "classify" \/ (pc.at = "idle" /\ ret.op = "get_node_groups")) =>
          \A f \in DOMAIN threads : threads[f].n = 1

\* C25 witness: a pass has returned after its node-list and its metrics
\* query failed
C25_Witness ==
    /\ pc.at = "idle" /\ ret.op = "get_node_groups"
    /\ ~threads["nodes"].ok /\ ~threads["metrics"].ok
    /\ \A f \in DOMAIN threads : threads[f].at = "done" /\ threads[f].n = 1

\* a step of one of the sub-fetch threads
ThreadStep == pc' = pc /\ threads' # threads

\* C26: in every interleaving a sub-fetch thread assigns only its own slot
\* of the result holder and leaves the cache store and its file alone, so
\* that after the joins each slot holds what its own query produced.
C26_DisjointSlots ==
    /\ [](pc.at = "classify" =>
            \A f \in DOMAIN results :
               results[f] = Some(FetchedValue(f, threads[f].ok)))
    /\ [][ThreadStep =>
            /\ \E f \in DOMAIN threads :
                  /\ threads'[f] # threads[f]
                  /\ \A g \in DOMAIN threads \ {f} :
                        threads'[g] = threads[g] /\ results'[g] = results[g]
            /\ cache' = cache
            /\ disk' = disk
            /\ io' = io]_vars

\* C26 witness: the last-started sub-fetch has written its slot while the
\* node-list query is still out and the metrics query has failed
C26_Witness ==
    /\ pc.at = "join"
    /\ threads["karpenter"].at = "done" /\ ~results["karpenter"].none
    /\ threads["nodes"].at = "ready" /\ results["nodes"].none
    /\ threads["metrics"].at = "fetched" /\ ~threads["metrics"].ok
    /\ results["metrics"].none

\* the entries of a store, each with its context, kind and key
Entries(store) ==
    UNION {UNION {{<<c, kind, key, store[c][kind][key]>> : key \in DOMAIN store[c][kind]}
                  : kind \in DOMAIN store[c]}
           : c \in DOMAIN store}

EntriesBut(store, c, kind, key) ==
    {e \in Entries(store) : <<e[1], e[2], e[3]>> # <<c, kind, key>>}

\* C27: update_cache(kind, key, X) under the engine's context c replaces the
\* entry (c, kind, key) as a whole and leaves every other entry, payload and
\* timestamp, as it was; no other operation of the instance changes an
\* entry.
C27_PutChangesOneEntry ==
    [][ret'.op # "construct" =>
          IF ret'.op = "update_cache" /\ cache_enabled
          THEN /\ EntriesBut(cache', current_context, ret'.kind, ret'.key)
                     = EntriesBut(cache, current_context, ret'.kind, ret'.key)
               /\ HasEntry(cache', current_context, ret'.kind, ret'.key)
               /\ cache'[current_context][ret'.kind][ret'.key] =
                     [data |-> lastPut'[<<ret'.kind, ret'.key>>].data, timestamp |-> now]
          ELSE Entries(cache') = Entries(cache)]_vars

\* C27 witness: a put made while the store holds an older entry under
\* another key of the same kind and an entry of another context
C27_Witness ==
    /\ ret.op = "update_cache" /\ cache_enabled
    /\ \E e \in Entries(cache) :
          /\ e[1] = current_context /\ e[2] = ret.kind /\ e[3] # ret.key
          /\ e[4].timestamp < now
    /\ \E e \in Entries(cache) : e[1] # current_context /\ e[4].timestamp < now

NoQueryHangs == \A f \in DOMAIN threads : threads[f].at # "hung"

SomeQueryHangs == \E f \in DOMAIN threads : threads[f].at = "hung"

\* C28: a get_node_groups pass that has begun eventually returns unless
\* one of its three queries never returns; and once a query never returns
\* the pass stays before or in its joins for ever, whatever the other two
\* did.
C28_ReturnsIffQueriesEnd ==
    /\ (pc.at # "idle") ~>
          ((pc.at = "idle" /\ ret.op = "get_node_groups") \/ SomeQueryHangs)
    /\ [](SomeQueryHangs => pc.at \in {"start", "join"})
    /\ [][SomeQueryHangs => SomeQueryHangs']_vars

\* C28 witness: the orchestrator waits in a join for the metrics query,
\* which never returns, while the other two sub-fetches are over
C28_Witness ==
    /\ pc.at = "join"
    /\ threads["metrics"].at = "hung"
    /\ threads["nodes"].at = "done"
    /\ threads["karpenter"].at = "done"

\* the node list a get_node_groups call worked on
FetchedNodes == IF ret.q.nodes = "ok" THEN cluster.nodes ELSE <<>>

\* C29: each node of the fetched list is counted in exactly one returned
\* group: every returned group has count >= 1 and the counts add up to the
\* number of nodes.
C29_CountsPartitionNodes ==
    (ret.op = "get_node_groups" /\ ~ret.raised) =>
       /\ \A i \in 1..Len(ret.data) : ret.data[i].count >= 1
       /\ SumSeq([i \in 1..Len(ret.data) |-> ret.data[i].count]) = Len(FetchedNodes)

\* C29 witness: two groups are returned for a node that carries a
\* managed-pool and an autoscaler-pool label and a node of that autoscaler
\* pool
C29_Witness ==
    /\ ret.op = "get_node_groups" /\ ~ret.raised /\ ret.q.nodes = "ok"
    /\ Len(cluster.nodes) = 2
    /\ Get(cluster.nodes[1].labels, EksLabel) = Some(PoolA)
    /\ Get(cluster.nodes[1].labels, KarpenterLabel) = Some(PoolK)
    /\ Get(cluster.nodes[2].labels, KarpenterLabel) = Some(PoolK)
    /\ Len(ret.data) = 2

\* the sum of f over the index set S
RECURSIVE SumFn(_, _)
SumFn(f, S) ==
    IF S = {} THEN 0
    ELSE LET x == CHOOSE x \in S : TRUE
         IN f[x] + SumFn(f, S \ {x})

\* the usage map a get_node_groups call worked with
FetchedMetrics ==
    IF ret.q.metrics = "ok" THEN get_node_metrics(Returned(cluster.metrics)) ELSE EmptyDict

\* C30: for every returned group, total CPU and memory are the sums of the
\* members' capacity and used CPU and memory the sums of the members' live
\* usage, a member without a metrics entry adding 0 (CPU in millicores,
\* memory in bytes, each shown as format_resource shows it).
C30_TotalsAreSums ==
    (ret.op = "get_node_groups" /\ ~ret.raised) =>
       LET nodes == FetchedNodes
           idx == 1..Len(nodes)
           cpu == [j \in idx |-> parse_cpu_value(nodes[j].capacity["cpu"])]
           mem == [j \in idx |-> NodeMemoryBytes(nodes[j].capacity["memory"]).val]
           cpu_used == [j \in idx |->
                          IF nodes[j].name \in DOMAIN FetchedMetrics
                          THEN FetchedMetrics[nodes[j].name].cpu_used ELSE 0]
           mem_used == [j \in idx |->
                          IF nodes[j].name \in DOMAIN FetchedMetrics
                          THEN FetchedMetrics[nodes[j].name].memory_used ELSE 0]
       IN \A i \in 1..Len(ret.data) :
             LET members == {j \in idx :
                               RuleGroup(nodes[j].labels, LabelNonEmpty) = ret.data[i].name}
             IN /\ ret.data[i].total_cpu = format_resource(SumFn(cpu, members), FALSE)
                /\ ret.data[i].total_memory = format_resource(SumFn(mem, members), TRUE)
                /\ ret.data[i].used_cpu = format_resource(SumFn(cpu_used, members), FALSE)
                /\ ret.data[i].used_memory = format_resource(SumFn(mem_used, members), TRUE)

\* C30 witness: one group of two members is returned with metrics, the
\* metrics API knowing only one of the two
C30_Witness ==
    /\ ret.op = "get_node_groups" /\ ~ret.raised
    /\ ret.q.nodes = "ok" /\ ret.q.metrics = "ok"
    /\ Len(ret.data) = 1
    /\ ret.data[1].count = 2
    /\ ret.data[1].total_cpu = <<"5", ".", "5">>
    /\ ret.data[1].total_memory = <<"3", ".", "0", "M", "i">>
    /\ ret.data[1].used_cpu = <<"2", "5", "0", "m">>
    /\ ret.data[1].used_memory = <<"5", "1", "2", ".", "0", "K", "i">>

\* the memory encoding rules: 'NKi' -> N*1024, 'NMi' -> N*1024^2,
\* 'NGi' -> N*1024^3, plain 'N' -> N, '<unknown>' -> 0
MemoryRuleBytes(s) ==
    IF s = Unknown THEN 0
    ELSE IF endswith(s, <<"K", "i">>) THEN DigitsToInt(DropLast(s, 2)) * Pow1024(1)
    ELSE IF endswith(s, <<"M", "i">>) THEN DigitsToInt(DropLast(s, 2)) * Pow1024(2)
    ELSE IF endswith(s, <<"G", "i">>) THEN DigitsToInt(DropLast(s, 2)) * Pow1024(3)
    ELSE DigitsToInt(s)

\* C31: the byte value get_node_groups and get_nodes derive from a node's
\* capacity and allocatable memory text is the one of the memory encoding
\* rules: wherever the node's figures are returned (the total of its group,
\* its roster record), they are the formatted rule value of the text.
C31_MemoryFollowsEncoding ==
    LET node == cluster.nodes[1] IN
    /\ (ret.op = "get_node_groups" /\ ~ret.raised /\ Len(ret.data) = 1) =>
          ret.data[1].total_memory = format_memory(MemoryRuleBytes(node.capacity["memory"]))
    /\ (ret.op = "get_nodes" /\ Len(ret.data) = 1) =>
          /\ ret.data[1].memory_total = format_memory(MemoryRuleBytes(node.capacity["memory"]))
          /\ ret.data[1].memory_alloc = format_memory(MemoryRuleBytes(node.allocatable["memory"]))

\* what get_node_groups returns for the inventory, every query succeeding
ReturnedGroups == get_node_groups(Returned(cluster.nodes), Returned(cluster.metrics), now).data

\* C32: for every group that get_node_groups returns with count n,
\* get_nodes(group name) on a cache miss over the same inventory returns
\* exactly n nodes, and every node of the inventory is in the roster of
\* exactly one returned group.
C32_ClassificationsAgree ==
    (ret.op = "get_nodes" /\ ~ret.fromCache /\ ret.q.nodes = "ok") =>
       /\ \A i \in 1..Len(ReturnedGroups) :
             ReturnedGroups[i].name = ret.key => Len(ret.data) = ReturnedGroups[i].count
       /\ \A j \in 1..Len(cluster.nodes) :
             Cardinality({i \in 1..Len(ReturnedGroups) :
                            InGroup(ReturnedGroups[i].name, cluster.nodes[j].labels)}) = 1

\* C33: when the node-list query of get_nodes or the pod-list query of
\* get_pod_metrics fails, the call writes nothing: the in-memory store and
\* the durable file are exactly as before the call.
C33_PrimaryFailureWritesNothing ==
    [][(/\ ret'.op \in {"get_nodes", "get_pod_metrics"}
        /\ (ret'.q.nodes = "fail" \/ ret'.q.pods = "fail")) =>
          /\ cache' = cache
          /\ disk' = disk]_vars

\* C33 witness: the node-list query of get_nodes failed while the store held
\* an expired, non-empty roster for the requested group, which is still there
C33_Witness ==
    /\ ret.op = "get_nodes" /\ ret.q.nodes = "fail"
    /\ cache_enabled
    /\ HasEntry(cache, current_context, "nodes", ret.key)
    /\ ~is_cache_valid(cache_enabled, cache[current_context]["nodes"][ret.key], now, cache_ttl)
    /\ cache[current_context]["nodes"][ret.key].data # <<>>
    /\ disk = OkFile(cache)

\* what a fetch of (kind, key) at time t stores when only the usage-metrics
\* query fails
DegradedPayload(kind, key, t) ==
    IF kind = "nodes"
    THEN NodesRoster(key, cluster.nodes, get_node_metrics(Failed), t)
    ELSE LET OnNode(pod) == pod.nodeName = key
         IN PodList(SelectSeq(cluster.pods, OnNode), pod_metrics_map(Failed), t)

\* C34: with caching enabled, a get_nodes or get_pod_metrics call in which
\* only the usage-metrics query fails puts its zero-usage result into the
\* store with the timestamp of the call, and every later call for that key
\* within the TTL returns that payload from the store without any query.
C34_DegradedResultIsServed ==
    [][(ret'.op \in {"get_nodes", "get_pod_metrics"} /\ cache_enabled) =>
          /\ (\/ ret'.q.nodes = "ok" /\ ret'.q.metrics = "fail"
              \/ ret'.q.pods = "ok" /\ ret'.q.top = "fail") =>
                /\ HasEntry(cache', current_context, ret'.kind, ret'.key)
                /\ cache'[current_context][ret'.kind][ret'.key] =
                      [data |-> ret'.data, timestamp |-> now]
                /\ ret'.data = DegradedPayload(ret'.kind, ret'.key, now)
          /\ (/\ EntryValid(ret'.kind, ret'.key)
              /\ cache[current_context][ret'.kind][ret'.key].data =
                    DegradedPayload(ret'.kind, ret'.key,
                                    cache[current_context][ret'.kind][ret'.key].timestamp)) =>
                /\ ret'.fromCache
                /\ ret'.data = cache[current_context][ret'.kind][ret'.key].data
                /\ ret'.q = NoQueries]_vars

\* C35: an entry put and flushed by one instance is returned by
\* get_cached_data in the next instance constructed on the same file under
\* the same context, at any time t from the load on, iff
\* t - (time of the put) < the TTL of that next instance: the stored fetch
\* timestamp decides, not the time of the load.
C35_ValiditySurvivesRestart ==
    [][(/\ ret'.op = "construct" /\ restarts' = restarts + 1
        /\ cache_enabled' /\ ret'.ok
        /\ current_context' = current_context) =>
          \A k \in DOMAIN lastPut :
             (lastPut[k].saved /\ disk.st = "ok") =>
                \A t \in now..MaxTime :
                   get_cached_data(cache_enabled', cache', current_context',
                                   k[1], k[2], t, cache_ttl') =
                      IF t - lastPut[k].t0 < cache_ttl'
                      THEN Some(lastPut[k].data)
                      ELSE None]_vars

\* C35 witness: an instance that has put nothing itself reads an entry of
\* the file its predecessor left, put before the load and still within the
\* TTL of this instance, which is shorter than the age the entry can reach
C35_Witness ==
    /\ restarts >= 1 /\ cache_enabled /\ lastPut = EmptyDict
    /\ ret.op = "get_cached_data" /\ ret.fromCache
    /\ ret.age >= 1
    /\ cache_ttl <= MaxTime
    /\ disk.st = "ok" /\ disk.data = cache

\* C36: save_cache truncates the file before it serializes: a put whose write
\* fails leaves either the old file (the open failed) or a file that cannot
\* be read (truncated, the dump did not complete), never another readable
\* file; and the next instance constructed on such a file starts from the
\* seeded empty store alone, so whatever any context had in the file before
\* that put is lost to it.
C36_FailedDumpLosesFile ==
    /\ [][(ret'.op = "update_cache" /\ cache_enabled /\ ~ret'.ok) =>
             (disk' = disk \/ disk' = CorruptFile)]_vars
    /\ [][(ret'.op = "construct" /\ restarts' = restarts + 1
           /\ cache_enabled' /\ disk.st = "corrupt") =>
             /\ ~ret'.raised
             /\ cache' = FreshStore(current_context')
             /\ \A k \in AllKeys :
                   get_cached_data(cache_enabled', cache', current_context',
                                   k[1], k[2], now', cache_ttl') = None]_vars

\* C36 witness: a put whose write failed has left the file unreadable while
\* another entry of the store had been flushed by an earlier put
C36_Witness ==
    /\ cache_enabled
    /\ ret.op = "update_cache" /\ ~ret.ok
    /\ disk = CorruptFile
    /\ \E k \in DOMAIN lastPut :
          /\ k # <<ret.kind, ret.key>>
          /\ lastPut[k].saved

\* C37: when two processes share the cache file, a successful put of the
\* second leaves the file equal to the second's in-memory store, whole: what
\* the file holds besides the entry just put is what the second process held
\* before, so an entry the first process flushed that the second does not
\* hold is no longer in the file; entries of the two are never merged.
C37_LastWriterWins ==
    [][(ret'.op = "peer_update_cache" /\ ret'.ok) =>
          /\ disk' = OkFile(peer'.cache)
          /\ EntriesBut(disk'.data, ret'.ctx, ret'.kind, ret'.key)
                = EntriesBut(peer.cache, ret'.ctx, ret'.kind, ret'.key)
          /\ \A k \in DOMAIN lastPut :
                ~HasEntry(peer'.cache, current_context, k[1], k[2]) =>
                   ~HasEntry(disk'.data, current_context, k[1], k[2])]_vars

\* C37 witness: the first process has flushed an entry after the second had
\* loaded the file, the second has then put another entry, and the file no
\* longer holds the entry of the first
C37_Witness ==
    /\ ret.op = "peer_update_cache" /\ ret.ok
    /\ \E k \in DOMAIN lastPut :
          /\ lastPut[k].saved
          /\ HasEntry(cache, current_context, k[1], k[2])
          /\ ~HasEntry(disk.data, current_context, k[1], k[2])

\* the (context, kind, key) triples of a store
Triples(store) == {<<e[1], e[2], e[3]>> : e \in Entries(store)}

\* C38: within a process lifetime no operation removes an entry: the set of
\* (context, kind, key) triples of the store never shrinks, and a put whose
\* write succeeds writes every other entry of the store, expired ones
\* included, to the file as it was.
C38_NothingIsEvicted ==
    [][ret'.op # "construct" =>
          /\ Triples(cache) \subseteq Triples(cache')
          /\ (ret'.op = "update_cache" /\ cache_enabled /\ ret'.ok) =>
                /\ disk'.st = "ok"
                /\ EntriesBut(cache, current_context, ret'.kind, ret'.key)
                      \subseteq Entries(disk'.data)]_vars

\* C38 witness: a put has succeeded while the store held an expired entry
\* under another key, and the file holds that expired entry
C38_Witness ==
    /\ ret.op = "update_cache" /\ cache_enabled /\ ret.ok
    /\ disk.st = "ok"
    /\ \E e \in EntriesBut(cache, current_context, ret.kind, ret.key) :
          /\ now - e[4].timestamp >= cache_ttl
          /\ e \in Entries(disk.data)

\* C39: update_cache of the K8sViewer class of k8s_viewer.py does what
\* update_cache of the class of main.py does: with caching enabled it
\* returns normally, the store holds the entry with the time of the call,
\* the whole store is written to the file, and the file holds the store when
\* the write succeeds.
C39_TwinClassesAgree ==
    (ret.op \in {"update_cache", "k8s_viewer.update_cache"} /\ cache_enabled) =>
       /\ ~ret.raised
       /\ HasEntry(cache, current_context, ret.kind, ret.key)
       /\ cache[current_context][ret.kind][ret.key] =
             [data |-> lastPut[<<ret.kind, ret.key>>].data, timestamp |-> now]
       /\ "write" \in io
       /\ ret.ok => disk = OkFile(cache)

====
